---- MODULE Spec2Model ----
(***************************************************************************)
(* A model of kissvpn: the AEAD framing of cipher.rs, the DNS codec and    *)
(* the UDP transports of transport/, and the worker pipeline of engine.rs. *)
(* Buffers are sequences of bytes (0..255).  Random draws (nonce, padding, *)
(* query ids) and the environment (datagrams on the wire, I/O results)     *)
(* are inputs drawn from small sets.                                       *)
(***************************************************************************)
EXTENDS Integers, Sequences, FiniteSets, Bags, TLC

VARIABLES
    \* ---- cipher.rs: one encrypt followed by one decrypt -----------------
    c_pc,       \* "idle" | "encrypted" | "decrypted"
    c_key,      \* passphrase of the encrypting Cipher
    c_plain,    \* the plaintext handed to encrypt
    c_enc,      \* result of encrypt: [panic, buf]
    c_tamper,   \* what happened to the frame on the wire: [kind, pos, bit]
    c_dkey,     \* passphrase of the decrypting Cipher
    c_dec,      \* result of decrypt: [ok, buf]
    \* ---- transport/fakedns.rs: one encode followed by one decode --------
    d_pc,       \* "idle" | "encoded" | "decoded" | "panicked"
    d_kind,     \* "query" | "response"
    d_debug,    \* the build has debug assertions (cfg(debug_assertions))
    d_payload,  \* the payload handed to the encoder
    d_id,       \* the id handed to the encoder
    d_enc,      \* the datagram the encoder built
    d_dec,      \* result of the decoder: [ok, payload, id]
    \* ---- transport/udp.rs, transport/fakedns.rs: the server transports --
    udp_server, \* UdpServerTransport: [peer_addr, last_peer_addr]
    dns_server, \* FakednsServerTransport: [query_id, last_query_id]
    \* ---- transport/udp.rs: the client transport -------------------------
    pool,       \* UdpClientTransport: [sock_ctxs: id -> [sock, created], epoll: sock -> token]
    socks,      \* the sockets created so far, 1..Len(socks), each as the kernel
                \* holds it: [rx, so_error, sent]
    sw_sock,    \* encrypt-and-send: (sock_id, sock) of the send under way, and its error
    rw_sock,    \* recv-and-decrypt: (sock_id, sock) of the receive under way, and its error
    \* ---- calls made on a UdpServerTransport by a test -------------------
    api_hist,   \* the calls so far, each [op, arg, ret]
    \* ---- engine.rs: run ------------------------------------------------
    tun2transport,  \* the tun->transport channel
    transport2tun,  \* the transport->tun channel
    last_tun_read,  \* the keepalive clock
    now,            \* time::Instant::now(), in seconds
    tr_pc, tr_buf,  \* tun-reader: "read" | "push" | "stamp"
    sw_pc, sw_buf,  \* encrypt-and-send: "recv" | "ready" | "send" | "send_to", on a
                    \* client "sock_send" | "send_remove" | "failed"
    rw_pc, rw_buf,  \* recv-and-decrypt: "receive" | "decrypt" | "mark" | "mark_udp" | "push",
                    \* on a client "lookup" | "sock_recv" | "recv_remove" | "failed"
    panic,          \* "none", or the error a worker's unwrap() met: the process has exited
    ka_pc,          \* keepalive: "wake" | "push" | "stamp", before run() reaches
                    \* if transport.needs_keepalive() "unspawned", after a false "off"
    ka_last,        \* keepalive: last_tun_read_v
    ka_now,         \* keepalive: now
    ka_wake,        \* keepalive: the time its thread::sleep ends
    ka_pushes,      \* keepalive: the frames it has pushed, each as [sampled, at]: its
                    \* now and the time the channel took the frame
    run_transport,  \* the transport run() was called with, where a behaviour starts
                    \* at that call; "none" where it starts with the workers running
    \* ---- the world around the engine ------------------------------------
    tun_in,     \* number of packets read from the tun device
    tun_out,    \* the frames written to the tun device
    net_in,     \* number of datagrams received
    rw_src,     \* source address of the datagram recv-and-decrypt is working on
    valid_src,  \* source address of the last datagram that decrypted successfully
    n_valid,    \* number of datagrams that decrypted successfully
    n_marked,   \* number of mark_last_received_valid() calls completed
    net_out,    \* the datagrams sent, each as its receiver reads it: [to, ok, payload],
                \* from a server with the id the client reads
    \* ---- the mutexes of the engine and its transport ---------------------
    mutex_owner,    \* for each Mutex the thread that holds its guard, or "free"
    lock_call,      \* for each thread the operation it is inside and the number of
                    \* lock steps of that operation it has done: [op, pos]
    \* ---- transport/udp.rs tests: a client and an echo server ------------
    echo_pc,        \* the client: "send" | "sock_send" | "receive" | "lookup" |
                    \* "sock_recv" | "failed"
    echo_sent,      \* number of requests the client has sent
    echo_received,  \* the buffers receive() has returned to the client
    srv_pc,         \* the server: "receive" | "mark" | "send" | "failed"
    srv_buf,        \* the buffer receive() has returned to the server
    srv_rx,         \* the datagrams waiting at the server's socket: [src, data]
    \* ---- engine.rs: the tun-reader as the keepalive worker meets it ------
    tr_pushes,      \* tun-reader: the instants at which the channel took a packet
                    \* of its, where a behaviour records them
    \* ---- faketcp/socket.rs: two sockets and the packets between them ----
    tcp_sock,       \* the Socket of each side: [state, next_send_seq, next_recv_seq]
    tcp_sent,       \* for each side the packets its raw_sock has sent and the
                    \* other side has not yet been fed
    tcp_fed,        \* the last feed_packet call: [n, to, pkt, ok, data], n counting the calls
    tcp_build,      \* the build: [debug, little_endian]
    tcp_panic,      \* a feed_packet call has panicked
    \* ---- faketcp/timer_runner.rs: a TimerRunner and its caller ---------
    timer_jobs,     \* TimerRunnerState.jobs: the set of TimerJobId [due, id] queued
    next_job_id,    \* TimerRunner.next_job_id
    timer_now,      \* std::time::Instant::now(), in milliseconds
    runner_pc,      \* the runner thread: "lock" | "wait" | "job"
    runner_until,   \* the runner thread: the instant its wait times out
    runner_job,     \* the runner thread: the job it has popped
    timer_ran,      \* the jobs run so far, in order: [job, at]
    timer_calls     \* the schedule and cancel calls so far: [op, job, ret]

cipherVars == <<c_pc, c_key, c_plain, c_enc, c_tamper, c_dkey, c_dec>>

codecVars == <<d_pc, d_kind, d_debug, d_payload, d_id, d_enc, d_dec>>

serverVars == <<udp_server, dns_server>>

clientVars == <<pool, socks, sw_sock, rw_sock>>

apiVars == <<api_hist>>

kaVars == <<ka_pc, ka_last, ka_now, ka_wake, ka_pushes, run_transport>>

engineVars == <<tun2transport, transport2tun, last_tun_read, now, tr_pc, tr_buf,
                sw_pc, sw_buf, rw_pc, rw_buf, panic, kaVars>>

worldVars == <<tun_in, tun_out, net_in, rw_src, valid_src, n_valid, n_marked, net_out>>

lockVars == <<mutex_owner, lock_call>>

echoVars == <<echo_pc, echo_sent, echo_received, srv_pc, srv_buf, srv_rx>>

tunVars == <<tr_pushes>>

socketVars == <<tcp_sock, tcp_sent, tcp_fed, tcp_build, tcp_panic>>

timerVars == <<timer_jobs, next_job_id, timer_now, runner_pc, runner_until, runner_job,
               timer_ran, timer_calls>>

faketcpVars == <<socketVars, timerVars>>

vars == <<cipherVars, codecVars, serverVars, clientVars, apiVars, engineVars, worldVars,
          lockVars, echoVars, tunVars, faketcpVars>>

----------------------------------------------------------------------------
\* constants.rs

VPN_MTU == 1362

TRANSPORT_MTU == 1392

UDP_MTU == 1464

\* cipher.rs
NONCE_SIZE == 12

\* size of the Poly1305 tag appended by encrypt_in_place
TAG_SIZE == 16

\* the largest pad count of encrypt: i32::min(255, ...)
MAX_PAD == 255

\* engine.rs
CHANNEL_SIZE == 64

\* seconds
KEEPALIVE_INTERVAL == 60

\* transport/udp.rs: UdpClientTransportOptions::default, in seconds
socket_send_duration == 60

socket_lingering_duration == 60

----------------------------------------------------------------------------
\* Bounds of the model

\* seeds of the random generator (nonce, padding bytes, test plaintext): 0..MaxSeed
MaxSeed == 1

\* plaintext lengths 0..MaxTamperLen (and the two large ones of TamperLens) are tampered with
MaxTamperLen == 1

\* ciphertext bytes at most this far from the start of a frame are tampered with
HeadFlips == 4

\* calls made on a UdpServerTransport
MaxApiCalls == 5

\* packets read from the tun device
MaxTunPackets == 1

\* datagrams received from the network
MaxDatagrams == 2

\* max_send_sockets of UdpClientTransportOptions (--num-sockets)
MaxSendSockets == 1

\* steps of the clock, each of TickSecs seconds
MaxTicks == 1

\* send() calls made on a client transport by a caller other than the engine
MaxSends == 2

----------------------------------------------------------------------------
\* Helpers

Min(a, b) == IF a < b THEN a ELSE b

\* Sum of f[i] over the domain of f (all f[i] > 0).
SumOf(f) == IF DOMAIN f = {} THEN 0 ELSE BagCardinality(f)

\* buf with bit `bit` of byte `pos` inverted
FlipBit(buf, pos, bit) ==
    [buf EXCEPT ![pos] = IF (buf[pos] \div (2 ^ bit)) % 2 = 1
                         THEN buf[pos] - 2 ^ bit
                         ELSE buf[pos] + 2 ^ bit]

----------------------------------------------------------------------------
\* cipher.rs

Passphrases == {"key0", "key1"}

\* Cipher::new: the key derived from the passphrase (HKDF-SHA256); distinct
\* passphrases give distinct keys.
Cipher_new(passphrase) == IF passphrase = "key0" THEN 77 ELSE 178

\* rand::thread_rng(): byte i of the stream drawn with seed r
RngByte(r, i) == (r * 101 + i * 37 + 11) % 256

\* ChaCha8Poly1305::generate_nonce
generate_nonce(r) == [i \in 1..NONCE_SIZE |-> RngByte(r, i)]

\* The AEAD of the chacha20poly1305 crate: a stream cipher keyed by key and
\* nonce, and a 16-byte tag over key, nonce and ciphertext.  The tag is two
\* weighted sums modulo primes, so that it changes with every byte of the
\* ciphertext, of the nonce and of the key, and with the length.
AeadKeystream(key, nonce, i) == (key + nonce[((i - 1) % NONCE_SIZE) + 1] * 3 + i * 5) % 256

AeadMac1(key, nonce, ct) ==
    LET m == <<key>> \o nonce \o ct
    IN  SumOf([i \in 1..Len(m) |-> (m[i] + 1) * (1 + (i % 4092))]) % 4093

AeadMac2(key, nonce, ct) ==
    LET m == <<key>> \o nonce \o ct
    IN  SumOf([i \in 1..Len(m) |-> (m[i] + 1) * (1 + ((i * i + 7 * i) % 4090))]) % 4091

AeadTag(key, nonce, ct) ==
    LET h1 == AeadMac1(key, nonce, ct)
        h2 == AeadMac2(key, nonce, ct)
    IN  [i \in 1..TAG_SIZE |->
            CASE i = 1 -> h1 \div 256
              [] i = 2 -> h1 % 256
              [] i = 3 -> h2 \div 256
              [] i = 4 -> h2 % 256
              [] OTHER -> (h1 * i + h2 + Len(ct)) % 256]

\* AeadInPlace::encrypt_in_place: buf becomes ciphertext followed by the tag
encrypt_in_place(key, nonce, buf) ==
    LET ct == [i \in 1..Len(buf) |-> (buf[i] + AeadKeystream(key, nonce, i)) % 256]
    IN  ct \o AeadTag(key, nonce, ct)

\* AeadInPlace::decrypt_in_place: fails when buf is shorter than a tag or the
\* tag does not verify, and then leaves buf as it is
decrypt_in_place(key, nonce, buf) ==
    IF Len(buf) < TAG_SIZE
    THEN [ok |-> FALSE, buf |-> buf]
    ELSE LET ct  == SubSeq(buf, 1, Len(buf) - TAG_SIZE)
             tag == SubSeq(buf, Len(buf) - TAG_SIZE + 1, Len(buf))
         IN  IF tag = AeadTag(key, nonce, ct)
             THEN [ok  |-> TRUE,
                   buf |-> [i \in 1..Len(ct) |->
                               (ct[i] + 256 - AeadKeystream(key, nonce, i)) % 256]]
             ELSE [ok |-> FALSE, buf |-> buf]

n_random_bytes_uncapped(len) == TRANSPORT_MTU - len - 1

n_random_bytes_off_by_one(len) == Min(MAX_PAD, TRANSPORT_MTU - len)

\* encrypt: the pad count for a buffer of len bytes (ciphertext, tag, nonce)
n_random_bytes(len) == Min(MAX_PAD, TRANSPORT_MTU - len - 1)

\* Cipher::encrypt with the generator seeded r; panic is the failed
\* assert!(n_random_bytes >= 0)
encrypt(key, r, buf) ==
    LET nonce == generate_nonce(r)
        b1    == encrypt_in_place(key, nonce, buf) \o nonce
        n     == n_random_bytes(Len(b1))
    IN  IF n < 0
        THEN [panic |-> TRUE, buf |-> b1]
        ELSE [panic |-> FALSE,
              buf   |-> b1 \o [i \in 1..n |-> RngByte(r, NONCE_SIZE + i)] \o <<n % 256>>]

decrypt_unchecked_tag(key, buf) ==
    IF Len(buf) < 1
    THEN [ok |-> FALSE, buf |-> buf]
    ELSE LET n == buf[Len(buf)]
         IN  IF Len(buf) < NONCE_SIZE + 1 + n
             THEN [ok |-> FALSE, buf |-> buf]
             ELSE LET b1    == SubSeq(buf, 1, Len(buf) - 1 - n)
                      nonce == SubSeq(b1, Len(b1) - NONCE_SIZE + 1, Len(b1))
                      b2    == SubSeq(b1, 1, Len(b1) - NONCE_SIZE)
                      r     == decrypt_in_place(key, nonce, b2)
                  IN  [ok |-> TRUE, buf |-> r.buf]

\* a read of n bytes at offset at (0-based) of a buffer that is len bytes
\* long at that moment; a truncate to at bytes is a read of none there
Access(at, n, len) == [at |-> at, n |-> n, len |-> len]

\* slice indexing, Buf::get_*, advance, copy_to_bytes and the truncate of a
\* computed length stay inside the buffer (outside it they panic, or the
\* length has wrapped around)
InBounds(a) == 0 <= a.at /\ 0 <= a.n /\ a.at + a.n <= a.len

decrypt_length_check_without_nonce(len, n) == len < 1 + n

\* Cipher::decrypt, its second length check: the buffer cannot hold nonce,
\* padding and pad count
decrypt_length_check(len, n) == len < NONCE_SIZE + 1 + n

\* Cipher::decrypt: the places of the buffer it reads and truncates at, in
\* order: the pad count, the truncate of padding and count, the nonce, the
\* truncate of the nonce, and the tag decrypt_in_place splits off
decrypt_accesses(buf) ==
    IF Len(buf) < 1
    THEN <<>>
    ELSE LET len == Len(buf)
             n   == buf[len]
         IN  <<Access(len - 1, 1, len)>> \o
             IF decrypt_length_check(len, n)
             THEN <<>>
             ELSE LET len1 == len - 1 - n
                      len2 == len1 - NONCE_SIZE
                  IN  <<Access(len1, 0, len),
                        Access(len1 - NONCE_SIZE, NONCE_SIZE, len1),
                        Access(len2, 0, len1)>> \o
                      IF len2 < TAG_SIZE
                      THEN <<>>
                      ELSE <<Access(len2 - TAG_SIZE, TAG_SIZE, len2)>>

\* Cipher::decrypt
decrypt(key, buf) ==
    IF Len(buf) < 1
    THEN [ok |-> FALSE, buf |-> buf]
    ELSE LET n == buf[Len(buf)]
         IN  IF decrypt_length_check(Len(buf), n)
             THEN [ok |-> FALSE, buf |-> buf]
             ELSE LET b1    == SubSeq(buf, 1, Len(buf) - 1 - n)
                      nonce == SubSeq(b1, Len(b1) - NONCE_SIZE + 1, Len(b1))
                      b2    == SubSeq(b1, 1, Len(b1) - NONCE_SIZE)
                  IN  decrypt_in_place(key, nonce, b2)

----------------------------------------------------------------------------
\* cipher.rs tests: encrypt a plaintext, then decrypt what arrives

\* test_all_sizes: a plaintext of len bytes filled by the generator
Plaintext(len, r) == [i \in 1..len |-> RngByte(r + 3, i + len)]

\* the plaintext lengths whose frames are tampered with: short ones, the
\* shortest whose pad is cut to fit TRANSPORT_MTU and the longest of all
TamperLens == (0..MaxTamperLen) \cup {TRANSPORT_MTU - NONCE_SIZE - TAG_SIZE - MAX_PAD, VPN_MTU}

\* the bytes of a frame that are tampered with: every byte of tag, nonce,
\* padding and pad count, and the ciphertext bytes next to either end
TamperPositions(buf) ==
    {p \in 1..Len(buf) : p <= HeadFlips \/ p > Len(buf) - (TAG_SIZE + NONCE_SIZE + MAX_PAD + 1)}

NoTamper == [kind |-> "none", pos |-> 0, bit |-> 0]

CipherIdle ==
    /\ c_pc = "idle"
    /\ c_key = "key0"
    /\ c_plain = <<>>
    /\ c_enc = [panic |-> FALSE, buf |-> <<>>]
    /\ c_tamper = NoTamper
    /\ c_dkey = "key0"
    /\ c_dec = [ok |-> FALSE, buf |-> <<>>]

CipherEncrypt(lens) ==
    /\ c_pc = "idle"
    /\ \E len \in lens, r \in 0..MaxSeed, k \in Passphrases :
          /\ c_key' = k
          /\ c_plain' = Plaintext(len, r)
          /\ c_enc' = encrypt(Cipher_new(k), r, Plaintext(len, r))
    /\ c_pc' = "encrypted"
    /\ UNCHANGED <<c_tamper, c_dkey, c_dec>>
    /\ UNCHANGED <<codecVars, serverVars, clientVars, apiVars, engineVars, worldVars, lockVars, tunVars, faketcpVars, echoVars>>

\* the frame arrives as sent and is decrypted under the same key
CipherDecrypt ==
    /\ c_pc = "encrypted"
    /\ ~c_enc.panic
    /\ c_dkey' = c_key
    /\ c_tamper' = NoTamper
    /\ c_dec' = decrypt(Cipher_new(c_key), c_enc.buf)
    /\ c_pc' = "decrypted"
    /\ UNCHANGED <<c_key, c_plain, c_enc>>
    /\ UNCHANGED <<codecVars, serverVars, clientVars, apiVars, engineVars, worldVars, lockVars, tunVars, faketcpVars, echoVars>>

\* the frame arrives as sent and is decrypted under another key
CipherDecryptWrongKey ==
    /\ c_pc = "encrypted"
    /\ ~c_enc.panic
    /\ \E k \in Passphrases \ {c_key} :
          /\ c_dkey' = k
          /\ c_dec' = decrypt(Cipher_new(k), c_enc.buf)
    /\ c_tamper' = NoTamper
    /\ c_pc' = "decrypted"
    /\ UNCHANGED <<c_key, c_plain, c_enc>>
    /\ UNCHANGED <<codecVars, serverVars, clientVars, apiVars, engineVars, worldVars, lockVars, tunVars, faketcpVars, echoVars>>

\* one bit of the frame is inverted on the wire
CipherDecryptFlipped ==
    /\ c_pc = "encrypted"
    /\ ~c_enc.panic
    /\ Len(c_plain) \in TamperLens
    /\ \E p \in TamperPositions(c_enc.buf), b \in 0..7 :
          /\ c_tamper' = [kind |-> "flip", pos |-> p, bit |-> b]
          /\ c_dec' = decrypt(Cipher_new(c_key), FlipBit(c_enc.buf, p, b))
    /\ c_dkey' = c_key
    /\ c_pc' = "decrypted"
    /\ UNCHANGED <<c_key, c_plain, c_enc>>
    /\ UNCHANGED <<codecVars, serverVars, clientVars, apiVars, engineVars, worldVars, lockVars, tunVars, faketcpVars, echoVars>>

----------------------------------------------------------------------------
\* transport/fakedns.rs: the DNS codec

DNS_QTYPE_NULL == 10

DNS_QCLASS_IN == 1

QUERY_MAX_PAYLOAD == 1414

RESPONSE_MAX_PAYLOAD == 1454

\* payload bytes of one QNAME: 63 + 63 + 63 + 61
QNAME_PAYLOAD == 250

\* bytes of one QNAME before its zero terminator
QNAME_LIMIT == 254

\* the longest label
MAX_LABEL == 63

\* BufMut::put_u16: big-endian
put_u16(v) == <<(v \div 256) % 256, v % 256>>

\* Buf::get_u16 at offset off (0-based) of buf
get_u16(buf, off) == buf[off + 1] * 256 + buf[off + 2]

\* Buf::advance / copy_to_bytes: buf without its first n bytes
Advance(buf, n) == SubSeq(buf, n + 1, Len(buf))

\* encode_to_query, the inner loop: the labels of one QNAME, with `room`
\* bytes left before result_len_limit; gives the bytes put and the payload left
RECURSIVE put_labels(_, _)
put_labels(payload, room) ==
    IF Len(payload) > 0 /\ 1 < room
    THEN LET label_len == Min(Min(Len(payload), room - 1), MAX_LABEL)
             rest      == put_labels(Advance(payload, label_len), room - 1 - label_len)
         IN  [out  |-> <<label_len>> \o SubSeq(payload, 1, label_len) \o rest.out,
              rest |-> rest.rest]
    ELSE [out |-> <<>>, rest |-> payload]

RECURSIVE put_questions_per_label(_)
put_questions_per_label(payload) ==
    IF Len(payload) > 0
    THEN LET q    == put_labels(payload, MAX_LABEL + 1)
             rest == put_questions_per_label(q.rest)
         IN  [out   |-> q.out \o <<0>> \o put_u16(DNS_QTYPE_NULL) \o put_u16(DNS_QCLASS_IN)
                        \o rest.out,
              count |-> rest.count + 1]
    ELSE [out |-> <<>>, count |-> 0]

\* encode_to_query, the outer loop: one question per round
RECURSIVE put_questions(_)
put_questions(payload) ==
    IF Len(payload) > 0
    THEN LET q    == put_labels(payload, QNAME_LIMIT)
             rest == put_questions(q.rest)
         IN  [out   |-> q.out \o <<0>> \o put_u16(DNS_QTYPE_NULL) \o put_u16(DNS_QCLASS_IN)
                        \o rest.out,
              count |-> rest.count + 1]
    ELSE [out |-> <<>>, count |-> 0]

\* encode_to_query
encode_to_query(payload, id) ==
    LET question_count == (Len(payload) + QNAME_PAYLOAD - 1) \div QNAME_PAYLOAD
    IN  put_u16(id) \o <<1, 0>> \o put_u16(question_count) \o <<0, 0, 0, 0, 0, 0>>
        \o put_questions(payload).out

\* decode_from_query, the inner loop: the labels of one QNAME; buf is what
\* remains to be read
RECURSIVE get_labels(_)
get_labels(buf) ==
    IF Len(buf) = 0
    THEN [ok |-> FALSE, out |-> <<>>, rest |-> buf]
    ELSE LET label_len == buf[1]
             b         == Advance(buf, 1)
         IN  IF label_len > MAX_LABEL \/ Len(b) < label_len
             THEN [ok |-> FALSE, out |-> <<>>, rest |-> b]
             ELSE IF label_len = 0
             THEN [ok |-> TRUE, out |-> <<>>, rest |-> b]
             ELSE LET more == get_labels(Advance(b, label_len))
                  IN  [ok   |-> more.ok,
                       out  |-> SubSeq(b, 1, label_len) \o more.out,
                       rest |-> more.rest]

\* decode_from_query, the outer loop over question_count questions
RECURSIVE get_questions(_, _)
get_questions(buf, question_count) ==
    IF question_count = 0
    THEN [ok |-> TRUE, out |-> <<>>]
    ELSE LET q == get_labels(buf)
         IN  IF ~q.ok \/ Len(q.rest) < 4
             THEN [ok |-> FALSE, out |-> <<>>]
             ELSE LET more == get_questions(Advance(q.rest, 4), question_count - 1)
                  IN  [ok |-> more.ok, out |-> q.out \o more.out]

\* decode_from_query
decode_from_query(buf) ==
    IF Len(buf) < 12
    THEN [ok |-> FALSE, payload |-> <<>>, id |-> 0]
    ELSE LET query_id       == get_u16(buf, 0)
             question_count == get_u16(buf, 4)
             r              == get_questions(Advance(buf, 12), question_count)
         IN  IF r.ok
             THEN [ok |-> TRUE, payload |-> r.out, id |-> query_id]
             ELSE [ok |-> FALSE, payload |-> <<>>, id |-> 0]

\* encode_to_response
encode_to_response(payload, id) ==
    put_u16(id) \o <<128, 128>> \o put_u16(0) \o put_u16(1) \o put_u16(0) \o put_u16(0)
    \o <<2, 99, 110, 0>>
    \o put_u16(DNS_QTYPE_NULL) \o put_u16(DNS_QCLASS_IN)
    \o <<0, 0, 1, 44>>
    \o put_u16(Len(payload) % 65536)
    \o payload

\* decode_from_response
decode_from_response(buf) ==
    IF Len(buf) < 26
    THEN [ok |-> FALSE, payload |-> <<>>]
    ELSE LET payload_len == get_u16(buf, 24)
             b           == Advance(buf, 26)
         IN  IF Len(b) # payload_len
             THEN [ok |-> FALSE, payload |-> <<>>]
             ELSE [ok |-> TRUE, payload |-> b]

\* decode_from_query, the inner loop: the reads of one QNAME from offset pos
\* of buf on; gives the reads, whether the QNAME ended with a zero label, and
\* the offset after it
RECURSIVE get_labels_accesses(_, _)
get_labels_accesses(buf, pos) ==
    IF ~(pos < Len(buf))
    THEN [ok |-> FALSE, acc |-> <<>>, pos |-> pos]
    ELSE LET label_len == buf[pos + 1]
             get_u8    == Access(pos, 1, Len(buf))
         IN  IF label_len > MAX_LABEL \/ Len(buf) - (pos + 1) < label_len
             THEN [ok |-> FALSE, acc |-> <<get_u8>>, pos |-> pos + 1]
             ELSE IF label_len = 0
             THEN [ok |-> TRUE, acc |-> <<get_u8>>, pos |-> pos + 1]
             ELSE LET more == get_labels_accesses(buf, pos + 1 + label_len)
                  IN  [ok  |-> more.ok,
                       acc |-> <<get_u8, Access(pos + 1, label_len, Len(buf))>> \o more.acc,
                       pos |-> more.pos]

\* decode_from_query, the outer loop: the reads of question_count questions
RECURSIVE get_questions_accesses(_, _, _)
get_questions_accesses(buf, pos, question_count) ==
    IF question_count = 0
    THEN <<>>
    ELSE LET q == get_labels_accesses(buf, pos)
         IN  IF ~q.ok \/ Len(buf) - q.pos < 4
             THEN q.acc
             ELSE q.acc \o <<Access(q.pos, 4, Len(buf))>>
                  \o get_questions_accesses(buf, q.pos + 4, question_count - 1)

\* decode_from_query: the reads it makes of buf, in order
decode_from_query_accesses(buf) ==
    IF Len(buf) < 12
    THEN <<>>
    ELSE <<Access(0, 2, Len(buf)), Access(2, 2, Len(buf)),
           Access(4, 2, Len(buf)), Access(6, 6, Len(buf))>>
         \o get_questions_accesses(buf, 12, get_u16(buf, 4))

\* decode_from_response: the reads it makes of buf, in order
decode_from_response_accesses(buf) ==
    IF Len(buf) < 26
    THEN <<>>
    ELSE LET payload_len == get_u16(buf, 24)
         IN  <<Access(0, 24, Len(buf)), Access(24, 2, Len(buf))>> \o
             IF Len(buf) - 26 # payload_len
             THEN <<>>
             ELSE <<Access(26, payload_len, Len(buf))>>

\* encode_to_query, encode_to_response: debug_assert!(result.len() <= UDP_MTU),
\* compiled in when the build has debug assertions
debug_assert_len(debug, result) == debug => Len(result) <= UDP_MTU

----------------------------------------------------------------------------
\* transport/fakedns.rs tests: a payload is encoded, then the datagram decoded

\* the ids of the tests: next_u32() as u16
CodecIds == {0, 4660, 65535}

\* the profiles cargo builds: with debug assertions (dev, test) and without (release)
Builds == BOOLEAN

NoDecode == [ok |-> FALSE, payload |-> <<>>, id |-> 0]

CodecIdle ==
    /\ d_pc = "idle"
    /\ d_kind = "query"
    /\ d_debug = FALSE
    /\ d_payload = <<>>
    /\ d_id = 0
    /\ d_enc = <<>>
    /\ d_dec = NoDecode

\* encode_to_query of a random payload whose length is one of lens
QueryEncodeOf(lens) ==
    /\ d_pc = "idle"
    /\ \E len \in lens, r \in 0..MaxSeed, id \in CodecIds, debug \in Builds :
          LET payload == Plaintext(len, r)
              result  == encode_to_query(payload, id)
          IN  /\ d_payload' = payload
              /\ d_id' = id
              /\ d_debug' = debug
              /\ d_enc' = result
              /\ d_pc' = IF debug_assert_len(debug, result) THEN "encoded" ELSE "panicked"
    /\ d_kind' = "query"
    /\ UNCHANGED d_dec
    /\ UNCHANGED <<cipherVars, serverVars, clientVars, apiVars, engineVars, worldVars, lockVars, tunVars, faketcpVars, echoVars>>

\* test_encode_decode_query: encode_to_query of a random payload of
\* 1..QUERY_MAX_PAYLOAD bytes
QueryEncode == QueryEncodeOf(1..QUERY_MAX_PAYLOAD)

\* encode_to_query of every payload it accepts, the empty one included
QueryEncodeAny == QueryEncodeOf(0..QUERY_MAX_PAYLOAD)

\* test_encode_decode_query: decode_from_query of the datagram
QueryDecode ==
    /\ d_pc = "encoded"
    /\ d_kind = "query"
    /\ d_dec' = decode_from_query(d_enc)
    /\ d_pc' = "decoded"
    /\ UNCHANGED <<d_kind, d_debug, d_payload, d_id, d_enc>>
    /\ UNCHANGED <<cipherVars, serverVars, clientVars, apiVars, engineVars, worldVars, lockVars, tunVars, faketcpVars, echoVars>>

\* encode_to_query: debug_assert!(payload.remaining() <= QUERY_MAX_PAYLOAD)
debug_assert_query_payload(debug, payload) == debug => Len(payload) <= QUERY_MAX_PAYLOAD

\* encode_to_query: debug_assert_eq!(added_question_count, question_count)
debug_assert_question_count(debug, payload) ==
    debug => put_questions(payload).count = (Len(payload) + QNAME_PAYLOAD - 1) \div QNAME_PAYLOAD

\* encode_to_response: debug_assert!(payload.remaining() <= RESPONSE_MAX_PAYLOAD)
debug_assert_response_payload(debug, payload) == debug => Len(payload) <= RESPONSE_MAX_PAYLOAD

\* FakednsClientTransport::send of a frame Cipher::encrypt has made:
\* encode_to_query with a random id
FrameEncodeQuery ==
    /\ c_pc = "encrypted"
    /\ ~c_enc.panic
    /\ d_pc = "idle"
    /\ \E id \in CodecIds, debug \in Builds :
          LET result == encode_to_query(c_enc.buf, id)
          IN  /\ d_id' = id
              /\ d_debug' = debug
              /\ d_enc' = result
              /\ d_pc' = IF /\ debug_assert_query_payload(debug, c_enc.buf)
                            /\ debug_assert_len(debug, result)
                            /\ debug_assert_question_count(debug, c_enc.buf)
                         THEN "encoded" ELSE "panicked"
    /\ d_payload' = c_enc.buf
    /\ d_kind' = "query"
    /\ UNCHANGED d_dec
    /\ UNCHANGED <<cipherVars, serverVars, clientVars, apiVars, engineVars, worldVars, lockVars, tunVars, faketcpVars, echoVars>>

\* FakednsServerTransport::send of a frame Cipher::encrypt has made:
\* encode_to_response with the query id in use
FrameEncodeResponse ==
    /\ c_pc = "encrypted"
    /\ ~c_enc.panic
    /\ d_pc = "idle"
    /\ \E id \in CodecIds, debug \in Builds :
          LET result == encode_to_response(c_enc.buf, id)
          IN  /\ d_id' = id
              /\ d_debug' = debug
              /\ d_enc' = result
              /\ d_pc' = IF /\ debug_assert_response_payload(debug, c_enc.buf)
                            /\ debug_assert_len(debug, result)
                         THEN "encoded" ELSE "panicked"
    /\ d_payload' = c_enc.buf
    /\ d_kind' = "response"
    /\ UNCHANGED d_dec
    /\ UNCHANGED <<cipherVars, serverVars, clientVars, apiVars, engineVars, worldVars, lockVars, tunVars, faketcpVars, echoVars>>

\* test_encode_decode_response: encode_to_response of a random payload of
\* 1..RESPONSE_MAX_PAYLOAD bytes
ResponseEncode ==
    /\ d_pc = "idle"
    /\ \E len \in 1..RESPONSE_MAX_PAYLOAD, r \in 0..MaxSeed, id \in CodecIds, debug \in Builds :
          LET payload == Plaintext(len, r)
              result  == encode_to_response(payload, id)
          IN  /\ d_payload' = payload
              /\ d_id' = id
              /\ d_debug' = debug
              /\ d_enc' = result
              /\ d_pc' = IF debug_assert_len(debug, result) THEN "encoded" ELSE "panicked"
    /\ d_kind' = "response"
    /\ UNCHANGED d_dec
    /\ UNCHANGED <<cipherVars, serverVars, clientVars, apiVars, engineVars, worldVars, lockVars, tunVars, faketcpVars, echoVars>>

\* test_encode_decode_response: decode_from_response of the datagram
ResponseDecode ==
    /\ d_pc = "encoded"
    /\ d_kind = "response"
    /\ LET r == decode_from_response(d_enc)
       IN  d_dec' = [ok |-> r.ok, payload |-> r.payload, id |-> 0]
    /\ d_pc' = "decoded"
    /\ UNCHANGED <<d_kind, d_debug, d_payload, d_id, d_enc>>
    /\ UNCHANGED <<cipherVars, serverVars, clientVars, apiVars, engineVars, worldVars, lockVars, tunVars, faketcpVars, echoVars>>

----------------------------------------------------------------------------
\* What a socket can hand to Cipher::decrypt and to the decoders: any byte
\* string of 0..UDP_MTU bytes

\* the bytes that decide a branch of a decoder: a zero label or pad count, the
\* longest label, the shortest invalid label, the largest byte
FillBytes == {0, MAX_LABEL, MAX_LABEL + 1, 255}

\* payload lengths of the well-formed datagrams that get cut or corrupted:
\* empty, one byte, and one that takes three questions
WireLens == {0, 1, 2 * QNAME_PAYLOAD + 100}

\* len bytes of fill, the last of them last
Filled(len, fill, last) == [i \in 1..len |-> IF i = len THEN last ELSE fill]

\* a datagram cut short
Truncated(buf, len) == SubSeq(buf, 1, len)

\* a datagram with one byte replaced
Corrupted(buf, pos, byte) == [buf EXCEPT ![pos] = byte]

\* the byte strings tried: constant ones of every length, and every cut and
\* every one-byte corruption of the well-formed datagrams in valid
WireBuffers(valid) ==
    {Filled(len, fill, last) : len \in 0..UDP_MTU, fill \in FillBytes, last \in FillBytes \cup {1, NONCE_SIZE}}
    \cup UNION {{Truncated(v, len) : len \in 0..Len(v)} : v \in valid}
    \cup UNION {{Corrupted(v, pos, byte) : pos \in 1..Len(v), byte \in FillBytes} : v \in valid}

\* no read and no truncate of the call left the buffer
AllInBounds(accesses) == \A i \in DOMAIN accesses : InBounds(accesses[i])

\* recv-and-decrypt: cipher.decrypt of a buffer as it came from the socket;
\* an access outside the buffer panics
WireDecrypt ==
    /\ c_pc = "idle"
    /\ d_pc = "idle"
    /\ \E buf \in WireBuffers({encrypt(Cipher_new(c_key), 0, Plaintext(len, 0)).buf : len \in WireLens}) :
          /\ c_enc' = [panic |-> FALSE, buf |-> buf]
          /\ IF AllInBounds(decrypt_accesses(buf))
             THEN /\ c_dec' = decrypt(Cipher_new(c_key), buf)
                  /\ c_pc' = "decrypted"
             ELSE /\ c_dec' = [ok |-> FALSE, buf |-> buf]
                  /\ c_pc' = "panicked"
    /\ UNCHANGED <<c_key, c_plain, c_tamper, c_dkey>>
    /\ UNCHANGED <<codecVars, serverVars, clientVars, apiVars, engineVars, worldVars, lockVars, tunVars, faketcpVars, echoVars>>

\* FakednsServerTransport::receive: decode_from_query of a datagram as it
\* came from the socket
WireDecodeQuery ==
    /\ d_pc = "idle"
    /\ c_pc = "idle"
    /\ \E buf \in WireBuffers({encode_to_query(Plaintext(len, 0), 4660) : len \in WireLens}) :
          /\ d_enc' = buf
          /\ IF AllInBounds(decode_from_query_accesses(buf))
             THEN /\ d_dec' = decode_from_query(buf)
                  /\ d_pc' = "decoded"
             ELSE /\ d_dec' = NoDecode
                  /\ d_pc' = "panicked"
    /\ d_kind' = "query"
    /\ UNCHANGED <<d_debug, d_payload, d_id>>
    /\ UNCHANGED <<cipherVars, serverVars, clientVars, apiVars, engineVars, worldVars, lockVars, tunVars, faketcpVars, echoVars>>

\* FakednsClientTransport::receive: decode_from_response of a datagram as it
\* came from the socket
WireDecodeResponse ==
    /\ d_pc = "idle"
    /\ c_pc = "idle"
    /\ \E buf \in WireBuffers({encode_to_response(Plaintext(len, 0), 4660) : len \in WireLens}) :
          /\ d_enc' = buf
          /\ IF AllInBounds(decode_from_response_accesses(buf))
             THEN /\ LET r == decode_from_response(buf)
                     IN  d_dec' = [ok |-> r.ok, payload |-> r.payload, id |-> 0]
                  /\ d_pc' = "decoded"
             ELSE /\ d_dec' = NoDecode
                  /\ d_pc' = "panicked"
    /\ d_kind' = "response"
    /\ UNCHANGED <<d_debug, d_payload, d_id>>
    /\ UNCHANGED <<cipherVars, serverVars, clientVars, apiVars, engineVars, worldVars, lockVars, tunVars, faketcpVars, echoVars>>

----------------------------------------------------------------------------
\* transport/udp.rs: UdpServerTransport

None == "None"

\* socket addresses of peers
Addrs == {"peerA", "peerB"}

\* UdpServerTransport::create
UdpServerTransport_create == [peer_addr |-> None, last_peer_addr |-> None]

UdpServerTransport_receive_trusting(t, src) ==
    [t EXCEPT !.last_peer_addr = src, !.peer_addr = src]

\* UdpServerTransport::receive, after recv_from gave a datagram from src
UdpServerTransport_receive(t, src) == [t EXCEPT !.last_peer_addr = src]

UdpServerTransport_mark_taking(t) ==
    [t EXCEPT !.peer_addr = t.last_peer_addr, !.last_peer_addr = None]

\* UdpServerTransport::mark_last_received_valid
UdpServerTransport_mark_last_received_valid(t) ==
    IF t.last_peer_addr # None
    THEN [t EXCEPT !.peer_addr = t.last_peer_addr]
    ELSE t

UdpServerTransport_ready_to_send_always(t) == TRUE

\* UdpServerTransport::ready_to_send
UdpServerTransport_ready_to_send(t) == t.peer_addr # None

\* UdpServerTransport::send: the AddrNotAvailable error, or the address the
\* datagram is sent to
UdpServerTransport_send(t) ==
    IF t.peer_addr = None
    THEN [ok |-> FALSE, err |-> "AddrNotAvailable", to |-> None]
    ELSE [ok |-> TRUE, err |-> "none", to |-> t.peer_addr]

\* transport/fakedns.rs: FakednsServerTransport

\* FakednsServerTransport::create
FakednsServerTransport_create == [query_id |-> 0, last_query_id |-> 0]

\* FakednsServerTransport::receive: the store to last_query_id
FakednsServerTransport_receive(t, decoded_query_id) ==
    [t EXCEPT !.last_query_id = decoded_query_id]

\* FakednsServerTransport::mark_last_received_valid: the store to query_id
FakednsServerTransport_mark_last_received_valid(t) ==
    [t EXCEPT !.query_id = t.last_query_id]

ServerIdle ==
    /\ udp_server = UdpServerTransport_create
    /\ dns_server = FakednsServerTransport_create

----------------------------------------------------------------------------
\* transport/udp.rs: UdpClientTransport

max_send_sockets == MaxSendSockets

\* f without x in its domain
Without(f, x) == [i \in DOMAIN f \ {x} |-> f[i]]

MinOf(S) == CHOOSE m \in S : \A x \in S : m <= x

MaxOf(S) == CHOOSE m \in S : \A x \in S : m >= x

\* element k (from 0) of S in increasing order
RECURSIVE NthOf(_, _)
NthOf(S, k) == IF k = 0 THEN MinOf(S) ELSE NthOf(S \ {MinOf(S)}, k - 1)

\* UdpClientTransport::create
UdpClientTransport_create == [sock_ctxs |-> <<>>, epoll |-> <<>>]

clear_outdated_never(p, outdated_time) == p

\* get_or_create_socket_for_sending: "clear outdated sockets"
RECURSIVE clear_outdated(_, _)
clear_outdated(p, outdated_time) ==
    IF DOMAIN p.sock_ctxs = {}
    THEN p
    ELSE LET first == MinOf(DOMAIN p.sock_ctxs)
         IN  IF p.sock_ctxs[first].created >= outdated_time
             THEN p
             ELSE clear_outdated([sock_ctxs |-> Without(p.sock_ctxs, first),
                                  epoll     |-> Without(p.epoll, p.sock_ctxs[first].sock)],
                                 outdated_time)

send_eligible_always(created, t) == TRUE

\* get_or_create_socket_for_sending: "find all sockets avaibale for sending",
\* the filter
send_eligible(created, t) == created >= t - socket_send_duration

needs_new_socket_at_limit(n_available) == n_available <= max_send_sockets

\* get_or_create_socket_for_sending: "create new socket if required"
needs_new_socket(n_available) == n_available < max_send_sockets

\* what creating a socket may meet: success, an error of bind,
\* set_read_timeout or connect, an error of epoll.add
SocketResults == {"ok", "SocketError", "EpollAddError"}

\* get_or_create_socket_for_sending at time t; new_sock is the socket
\* UdpSocket::bind would give, io what creating it meets, rand the number
\* drawn to pick a socket
get_or_create_socket_for_sending(p, t, new_sock, rand, io) ==
    LET p1 == clear_outdated(p, t - socket_send_duration - socket_lingering_duration)
        available_socks ==
            {id \in DOMAIN p1.sock_ctxs : send_eligible(p1.sock_ctxs[id].created, t)}
    IN  IF needs_new_socket(Cardinality(available_socks))
        THEN LET sock_id  == IF DOMAIN p1.sock_ctxs = {}
                             THEN 0
                             ELSE MaxOf(DOMAIN p1.sock_ctxs) + 1
                 inserted == p1.sock_ctxs @@ (sock_id :> [sock |-> new_sock, created |-> t])
             IN  IF io = "SocketError"
                 THEN [pool |-> p1, sock_id |-> 0, sock |-> 0, created |-> FALSE, err |-> io]
                 ELSE IF io = "EpollAddError"
                 THEN [pool    |-> [sock_ctxs |-> inserted, epoll |-> p1.epoll],
                       sock_id |-> sock_id,
                       sock    |-> new_sock,
                       created |-> TRUE,
                       err     |-> io]
                 ELSE [pool    |-> [sock_ctxs |-> inserted,
                                    epoll     |-> p1.epoll @@ (new_sock :> sock_id)],
                       sock_id |-> sock_id,
                       sock    |-> new_sock,
                       created |-> TRUE,
                       err     |-> "none"]
        ELSE LET sock_id == NthOf(available_socks, rand % Cardinality(available_socks))
             IN  [pool    |-> p1,
                  sock_id |-> sock_id,
                  sock    |-> p1.sock_ctxs[sock_id].sock,
                  created |-> FALSE,
                  err     |-> "none"]

get_socket_by_id_first(p, id) ==
    IF id \in DOMAIN p.sock_ctxs
    THEN [found |-> TRUE, sock |-> p.sock_ctxs[MinOf(DOMAIN p.sock_ctxs)].sock]
    ELSE [found |-> FALSE, sock |-> 0]

\* get_socket_by_id
get_socket_by_id(p, id) ==
    IF id \in DOMAIN p.sock_ctxs
    THEN [found |-> TRUE, sock |-> p.sock_ctxs[id].sock]
    ELSE [found |-> FALSE, sock |-> 0]

\* remove_socket_by_id
remove_socket_by_id(p, id) ==
    IF id \in DOMAIN p.sock_ctxs
    THEN [sock_ctxs |-> Without(p.sock_ctxs, id),
          epoll     |-> Without(p.epoll, p.sock_ctxs[id].sock)]
    ELSE p

removes_socket_on_every(kind) == TRUE

\* UdpClientTransport::send and ::receive, Err(e):
\* if e.kind() != ErrorKind::ConnectionRefused { remove_socket_by_id }
removes_socket_on(kind) == kind # "ConnectionRefused"

\* the errors a connected UDP socket reports after an ICMP message
IcmpErrors == {"ConnectionRefused", "HostUnreachable"}

NoSock == [sock_id |-> 0, sock |-> 0, err |-> "none"]

ClientIdle ==
    /\ pool = UdpClientTransport_create
    /\ socks = <<>>
    /\ sw_sock = NoSock
    /\ rw_sock = NoSock

----------------------------------------------------------------------------
\* transport/udp.rs tests: any sequence of calls on a UdpServerTransport

ApiIdle == api_hist = <<>>

ApiCall(op, arg, ret) ==
    /\ Len(api_hist) < MaxApiCalls
    /\ api_hist' = Append(api_hist, [op |-> op, arg |-> arg, ret |-> ret])
    /\ UNCHANGED <<dns_server, cipherVars, codecVars, clientVars, engineVars, worldVars, lockVars, tunVars, faketcpVars, echoVars>>

\* receive(): recv_from gives a datagram from some peer
ApiReceive ==
    \E src \in Addrs :
        /\ udp_server' = UdpServerTransport_receive(udp_server, src)
        /\ ApiCall("receive", src, "Ok")

\* receive(): recv_from fails
ApiReceiveError ==
    /\ UNCHANGED udp_server
    /\ ApiCall("receive", None, "Err")

ApiMarkLastReceivedValid ==
    /\ udp_server' = UdpServerTransport_mark_last_received_valid(udp_server)
    /\ ApiCall("mark_last_received_valid", None, "()")

ApiReadyToSend ==
    /\ UNCHANGED udp_server
    /\ ApiCall("ready_to_send", None, UdpServerTransport_ready_to_send(udp_server))

ApiSend ==
    /\ UNCHANGED udp_server
    /\ ApiCall("send", UdpServerTransport_send(udp_server).to,
               IF UdpServerTransport_send(udp_server).ok THEN "Ok" ELSE "Err")

----------------------------------------------------------------------------
\* engine.rs: run, with the transport main.rs gives it

\* main: the passphrase of this process (--key), and one that is not
EngineKey == "key0"

OtherKey == "key1"

\* an IP packet read from the tun device
TunPackets == {<<69>>, <<69, 0>>}

\* Datagrams a server may receive.  From a peer holding the key: a data
\* frame and a keepalive.  From anyone else: a frame under another key, a
\* well-formed query that carries no frame, and datagrams that are no DNS
\* query (too short for the header, a label longer than the datagram).
QueryData == encode_to_query(encrypt(Cipher_new(EngineKey), 0, <<69, 1>>).buf, 4660)

QueryKeepalive == encode_to_query(encrypt(Cipher_new(EngineKey), 1, <<>>).buf, 22)

QueryOtherKey == encode_to_query(encrypt(Cipher_new(OtherKey), 0, <<69, 1>>).buf, 99)

QueryNoFrame == encode_to_query(<<1, 2, 3>>, 5)

NotDnsShort == <<1, 2, 3>>

NotDnsLabel == <<0, 7, 1, 0, 0, 1, 0, 0, 0, 0, 0, 0, 9, 1, 2>>

ServerDatagrams ==
    {[src |-> a, data |-> d] :
        a \in Addrs,
        d \in {QueryData, QueryKeepalive, QueryOtherKey, QueryNoFrame, NotDnsShort, NotDnsLabel}}

\* a datagram the server sent, as the client holding the key reads it
ClientView(to, data) ==
    LET resp == decode_from_response(data)
        p    == decrypt(Cipher_new(EngineKey), resp.payload)
    IN  [to |-> to, id |-> get_u16(data, 0), ok |-> resp.ok /\ p.ok,
         payload |-> IF resp.ok /\ p.ok THEN p.buf ELSE <<>>]

panic_hook_returns == FALSE

\* main: the panic hook set before the engine starts calls the original hook
\* and then std::process::exit: a panic of any thread ends the process
panic_hook_exits == TRUE

\* the exit status the panic hook passes to std::process::exit
PanicExitStatus == 1

\* spawn_loop: f().unwrap() panics on a worker's error, and the hook ends the
\* process: no thread takes another step
Running == panic = "none" \/ ~panic_hook_exits

\* std::process::exit has been called
process_exited == ~Running

channel_send_front(channel, buf) == <<buf>> \o channel

\* mpsc::SyncSender::send on a channel with a free slot: the buffer goes behind
\* those already in the channel
channel_send(channel, buf) == Append(channel, buf)

\* tun-reader: tun.read, while the device has packets: the next one is one of
\* Packets[n], n counting the packets read
TunReadFrom(limit, Packets) ==
    /\ Running
    /\ tr_pc = "read"
    /\ tun_in < limit
    /\ \E pkt \in Packets[tun_in + 1] : tr_buf' = pkt
    /\ tun_in' = tun_in + 1
    /\ tr_pc' = "push"
    /\ UNCHANGED <<tun2transport, transport2tun, last_tun_read, now, sw_pc, sw_buf,
                   rw_pc, rw_buf, panic, tun_out, net_in, rw_src, valid_src, n_valid,
                   n_marked, net_out>>
    /\ UNCHANGED <<cipherVars, codecVars, kaVars, serverVars, clientVars, apiVars, lockVars, tunVars, faketcpVars, echoVars>>

\* tun-reader: tun.read
TunRead == TunReadFrom(MaxTunPackets, [n \in 1..MaxTunPackets |-> TunPackets])
\* tun-reader: tun.read returns an error, which `?` hands to unwrap()
TunReadError ==
    /\ Running
    /\ tr_pc = "read"
    /\ panic' = "TunReadError"
    /\ UNCHANGED <<tun2transport, transport2tun, last_tun_read, now, tr_pc, tr_buf,
                   sw_pc, sw_buf, rw_pc, rw_buf, worldVars>>
    /\ UNCHANGED <<cipherVars, codecVars, kaVars, serverVars, clientVars, apiVars, lockVars, tunVars, faketcpVars, echoVars>>

\* tun-reader: tun2transport_sender.send, which blocks while the channel is full
TunPushNoting(noted) ==
    /\ Running
    /\ tr_pc = "push"
    /\ Len(tun2transport) < CHANNEL_SIZE
    /\ tun2transport' = channel_send(tun2transport, tr_buf)
    /\ tr_buf' = <<>>
    /\ tr_pc' = "stamp"
    /\ tr_pushes' = IF noted THEN Append(tr_pushes, now) ELSE tr_pushes
    /\ UNCHANGED <<transport2tun, last_tun_read, now, sw_pc, sw_buf,
                   rw_pc, rw_buf, panic, worldVars>>
    /\ UNCHANGED <<cipherVars, codecVars, kaVars, serverVars, clientVars, apiVars, lockVars, faketcpVars, echoVars>>

TunPush == TunPushNoting(FALSE)

\* tun-reader: tun2transport_sender.send, the instant of it recorded
EgressTunPush == TunPushNoting(TRUE)

\* tun-reader: *last_tun_read.lock() = Instant::now()
TunStamp ==
    /\ Running
    /\ tr_pc = "stamp"
    /\ last_tun_read' = now
    /\ tr_pc' = "read"
    /\ UNCHANGED <<tun2transport, transport2tun, now, tr_buf, sw_pc, sw_buf,
                   rw_pc, rw_buf, panic, worldVars>>
    /\ UNCHANGED <<cipherVars, codecVars, kaVars, serverVars, clientVars, apiVars, lockVars, tunVars, faketcpVars, echoVars>>

\* encrypt-and-send: tun2transport_receiver.recv and cipher.encrypt
SendWorkerRecv ==
    /\ Running
    /\ sw_pc = "recv"
    /\ Len(tun2transport) > 0
    /\ tun2transport' = Tail(tun2transport)
    /\ \E r \in 0..MaxSeed :
          LET e == encrypt(Cipher_new(EngineKey), r, Head(tun2transport))
          IN  IF e.panic
              THEN /\ panic' = "encrypt"
                   /\ UNCHANGED <<sw_pc, sw_buf>>
              ELSE /\ sw_buf' = e.buf
                   /\ sw_pc' = "ready"
                   /\ UNCHANGED panic
    /\ UNCHANGED <<transport2tun, last_tun_read, now, tr_pc, tr_buf,
                   rw_pc, rw_buf, worldVars>>
    /\ UNCHANGED <<cipherVars, codecVars, kaVars, serverVars, clientVars, apiVars, lockVars, tunVars, faketcpVars, echoVars>>

\* encrypt-and-send on a server: if transport.ready_to_send(); the frame is
\* dropped when it is not
ServerReadyToSend ==
    /\ Running
    /\ sw_pc = "ready"
    /\ IF UdpServerTransport_ready_to_send(udp_server)
       THEN /\ sw_pc' = "send"
            /\ UNCHANGED sw_buf
       ELSE /\ sw_pc' = "recv"
            /\ sw_buf' = <<>>
    /\ UNCHANGED <<tun2transport, transport2tun, last_tun_read, now, tr_pc, tr_buf,
                   rw_pc, rw_buf, panic, worldVars>>
    /\ UNCHANGED <<cipherVars, codecVars, kaVars, serverVars, clientVars, apiVars, lockVars, tunVars, faketcpVars, echoVars>>

\* FakednsServerTransport::send: encode_to_response with the query_id loaded
ServerSendEncode ==
    /\ Running
    /\ sw_pc = "send"
    /\ sw_buf' = encode_to_response(sw_buf, dns_server.query_id)
    /\ sw_pc' = "send_to"
    /\ UNCHANGED <<tun2transport, transport2tun, last_tun_read, now, tr_pc, tr_buf,
                   rw_pc, rw_buf, panic, worldVars>>
    /\ UNCHANGED <<cipherVars, codecVars, kaVars, serverVars, clientVars, apiVars, lockVars, tunVars, faketcpVars, echoVars>>

\* UdpServerTransport::send; its error reaches unwrap() in spawn_loop
ServerSendTo ==
    /\ Running
    /\ sw_pc = "send_to"
    /\ LET r == UdpServerTransport_send(udp_server)
       IN  IF r.ok
           THEN /\ net_out' = Append(net_out, ClientView(r.to, sw_buf))
                /\ sw_pc' = "recv"
                /\ sw_buf' = <<>>
                /\ UNCHANGED panic
           ELSE /\ panic' = r.err
                /\ UNCHANGED <<net_out, sw_pc, sw_buf>>
    /\ UNCHANGED <<tun2transport, transport2tun, last_tun_read, now, tr_pc, tr_buf,
                   rw_pc, rw_buf, tun_in, tun_out, net_in, rw_src, valid_src, n_valid,
                   n_marked>>
    /\ UNCHANGED <<cipherVars, codecVars, kaVars, serverVars, clientVars, apiVars, lockVars, tunVars, faketcpVars, echoVars>>

\* recv-and-decrypt on a server: FakednsServerTransport::receive, that is
\* UdpServerTransport::receive, decode_from_query and the store to
\* last_query_id; a decoding error reaches unwrap() in spawn_loop
ServerReceiveFrom(limit, Datagrams) ==
    /\ Running
    /\ rw_pc = "receive"
    /\ net_in < limit
    /\ \E d \in Datagrams[net_in + 1] :
          LET q == decode_from_query(d.data)
          IN  /\ net_in' = net_in + 1
              /\ rw_src' = d.src
              /\ udp_server' = UdpServerTransport_receive(udp_server, d.src)
              /\ IF q.ok
                 THEN /\ dns_server' = FakednsServerTransport_receive(dns_server, q.id)
                      /\ rw_buf' = q.payload
                      /\ rw_pc' = "decrypt"
                      /\ UNCHANGED panic
                 ELSE /\ panic' = "CodecError"
                      /\ UNCHANGED <<dns_server, rw_buf, rw_pc>>
    /\ UNCHANGED <<tun2transport, transport2tun, last_tun_read, now, tr_pc, tr_buf,
                   sw_pc, sw_buf, tun_in, tun_out, valid_src, n_valid, n_marked, net_out>>
    /\ UNCHANGED <<cipherVars, codecVars, kaVars, clientVars, apiVars, lockVars, tunVars, faketcpVars, echoVars>>

\* recv-and-decrypt on a server: the next datagram is any of ServerDatagrams
ServerReceive == ServerReceiveFrom(MaxDatagrams, [n \in 1..MaxDatagrams |-> ServerDatagrams])
decrypt_branch_ignoring_result(ok) == "mark"

\* recv-and-decrypt: if cipher.decrypt(&mut buf).is_ok() { .. } else { trace!(..) }
decrypt_branch(ok) == IF ok THEN "mark" ELSE "receive"

\* recv-and-decrypt: cipher.decrypt
RecvDecrypt ==
    /\ Running
    /\ rw_pc = "decrypt"
    /\ LET r == decrypt(Cipher_new(EngineKey), rw_buf)
       IN  /\ rw_pc' = decrypt_branch(r.ok)
           /\ rw_buf' = IF rw_pc' = "mark" THEN r.buf ELSE <<>>
           /\ valid_src' = IF r.ok THEN rw_src ELSE valid_src
           /\ n_valid' = IF r.ok THEN n_valid + 1 ELSE n_valid
    /\ UNCHANGED <<tun2transport, transport2tun, last_tun_read, now, tr_pc, tr_buf,
                   sw_pc, sw_buf, panic, tun_in, tun_out, net_in, rw_src, n_marked, net_out>>
    /\ UNCHANGED <<cipherVars, codecVars, kaVars, serverVars, clientVars, apiVars, lockVars, tunVars, faketcpVars, echoVars>>

\* FakednsServerTransport::mark_last_received_valid: the store to query_id
ServerMarkQueryId ==
    /\ Running
    /\ rw_pc = "mark"
    /\ dns_server' = FakednsServerTransport_mark_last_received_valid(dns_server)
    /\ rw_pc' = "mark_udp"
    /\ UNCHANGED <<tun2transport, transport2tun, last_tun_read, now, tr_pc, tr_buf,
                   sw_pc, sw_buf, rw_buf, panic, worldVars>>
    /\ UNCHANGED <<cipherVars, codecVars, kaVars, udp_server, clientVars, apiVars, lockVars, tunVars, faketcpVars, echoVars>>

\* UdpServerTransport::mark_last_received_valid
ServerMarkPeer ==
    /\ Running
    /\ rw_pc = "mark_udp"
    /\ udp_server' = UdpServerTransport_mark_last_received_valid(udp_server)
    /\ n_marked' = n_marked + 1
    /\ rw_pc' = "push"
    /\ UNCHANGED <<tun2transport, transport2tun, last_tun_read, now, tr_pc, tr_buf,
                   sw_pc, sw_buf, rw_buf, panic, tun_in, tun_out, net_in, rw_src, valid_src,
                   n_valid, net_out>>
    /\ UNCHANGED <<cipherVars, codecVars, kaVars, dns_server, clientVars, apiVars, lockVars, tunVars, faketcpVars, echoVars>>

forwards_to_tun_always(buf) == TRUE

\* recv-and-decrypt: if !buf.is_empty(), "empty is for keepalive"
forwards_to_tun(buf) == Len(buf) > 0

\* recv-and-decrypt: if !buf.is_empty() { transport2tun_sender.send(buf) },
\* which blocks while the channel is full
RecvPush ==
    /\ Running
    /\ rw_pc = "push"
    /\ IF forwards_to_tun(rw_buf)
       THEN /\ Len(transport2tun) < CHANNEL_SIZE
            /\ transport2tun' = channel_send(transport2tun, rw_buf)
       ELSE UNCHANGED transport2tun
    /\ rw_buf' = <<>>
    /\ rw_pc' = "receive"
    /\ UNCHANGED <<tun2transport, last_tun_read, now, tr_pc, tr_buf,
                   sw_pc, sw_buf, panic, worldVars>>
    /\ UNCHANGED <<cipherVars, codecVars, kaVars, serverVars, clientVars, apiVars, lockVars, tunVars, faketcpVars, echoVars>>

\* tun-writer: transport2tun_receiver.recv and tun.write
TunWrite ==
    /\ Running
    /\ Len(transport2tun) > 0
    /\ transport2tun' = Tail(transport2tun)
    /\ tun_out' = Append(tun_out, Head(transport2tun))
    /\ UNCHANGED <<tun2transport, last_tun_read, now, tr_pc, tr_buf,
                   sw_pc, sw_buf, rw_pc, rw_buf, panic, tun_in, net_in, rw_src, valid_src,
                   n_valid, n_marked, net_out>>
    /\ UNCHANGED <<cipherVars, codecVars, kaVars, serverVars, clientVars, apiVars, lockVars, tunVars, faketcpVars, echoVars>>

\* tun-writer: transport2tun_receiver.recv, and tun.write returns an error
TunWriteError ==
    /\ Running
    /\ Len(transport2tun) > 0
    /\ transport2tun' = Tail(transport2tun)
    /\ panic' = "TunWriteError"
    /\ UNCHANGED <<tun2transport, last_tun_read, now, tr_pc, tr_buf,
                   sw_pc, sw_buf, rw_pc, rw_buf, worldVars>>
    /\ UNCHANGED <<cipherVars, codecVars, kaVars, serverVars, clientVars, apiVars, lockVars, tunVars, faketcpVars, echoVars>>

----------------------------------------------------------------------------
\* The mutexes: peer_addr and last_peer_addr of UdpServerTransport, sock_ctxs
\* of UdpClientTransport, last_tun_read of run.  Each operation is the
\* sequence of its lock() calls and of the drops of the guards they return.

Mutexes == {"peer_addr", "last_peer_addr", "sock_ctxs", "last_tun_read"}

Workers == {"tun-reader", "encrypt-and-send", "recv-and-decrypt", "tun-writer", "keepalive"}

Lock(m) == [do |-> "lock", mutex |-> m]

Unlock(m) == [do |-> "unlock", mutex |-> m]

UdpServerTransport_send_locks_nested ==
    <<Lock("peer_addr"), Lock("last_peer_addr"), Unlock("last_peer_addr"), Unlock("peer_addr")>>

\* UdpServerTransport::send: the guard of peer_addr is a temporary of the let
\* statement, dropped before send_to
UdpServerTransport_send_locks == <<Lock("peer_addr"), Unlock("peer_addr")>>

\* UdpServerTransport::receive: the guard of last_peer_addr is a temporary
\* of the insert statement, taken after recv_from has returned
UdpServerTransport_receive_locks == <<Lock("last_peer_addr"), Unlock("last_peer_addr")>>

\* UdpServerTransport::mark_last_received_valid: the guard of last_peer_addr
\* is a temporary of the if let, alive through its block, where peer_addr is
\* locked
UdpServerTransport_mark_last_received_valid_locks ==
    <<Lock("last_peer_addr"), Lock("peer_addr"), Unlock("peer_addr"), Unlock("last_peer_addr")>>

\* UdpServerTransport::ready_to_send
UdpServerTransport_ready_to_send_locks == <<Lock("peer_addr"), Unlock("peer_addr")>>

\* get_or_create_socket_for_sending, get_socket_by_id, remove_socket_by_id:
\* the guard of sock_ctxs lives to the end of the function, which calls epoll
\* and the socket API and takes no other lock
UdpClientTransport_pool_locks == <<Lock("sock_ctxs"), Unlock("sock_ctxs")>>

\* run: *last_tun_read.lock().unwrap(), read or written in one statement
last_tun_read_locks == <<Lock("last_tun_read"), Unlock("last_tun_read")>>

LockSteps(op) ==
    CASE op = "UdpServerTransport::send" -> UdpServerTransport_send_locks
      [] op = "UdpServerTransport::receive" -> UdpServerTransport_receive_locks
      [] op = "UdpServerTransport::mark_last_received_valid" ->
            UdpServerTransport_mark_last_received_valid_locks
      [] op = "UdpServerTransport::ready_to_send" -> UdpServerTransport_ready_to_send_locks
      [] op \in {"get_or_create_socket_for_sending", "get_socket_by_id",
                 "remove_socket_by_id"} -> UdpClientTransport_pool_locks
      [] op \in {"last_tun_read = now", "last_tun_read_v = last_tun_read"} ->
            last_tun_read_locks
      [] OTHER -> <<>>

\* the operations with a lock() that each worker of run() calls, by the
\* transport run() was given: the Fakedns wrappers hold atomics and no mutex
\* and call the UDP transport's operation of the same name
WorkerOps(worker) ==
    CASE worker = "tun-reader" -> {"last_tun_read = now"}
      [] worker = "encrypt-and-send" ->
            IF run_transport = "FakednsServerTransport"
            THEN {"UdpServerTransport::ready_to_send", "UdpServerTransport::send"}
            ELSE IF run_transport = "FakednsClientTransport"
            THEN {"get_or_create_socket_for_sending", "remove_socket_by_id"}
            ELSE {}
      [] worker = "recv-and-decrypt" ->
            IF run_transport = "FakednsServerTransport"
            THEN {"UdpServerTransport::receive", "UdpServerTransport::mark_last_received_valid"}
            ELSE IF run_transport = "FakednsClientTransport"
            THEN {"get_socket_by_id", "remove_socket_by_id"}
            ELSE {}
      [] worker = "keepalive" ->
            IF ka_pc \in {"unspawned", "off"} THEN {}
            ELSE {"last_tun_read_v = last_tun_read", "last_tun_read = now"}
      [] OTHER -> {}

LocksIdle ==
    /\ mutex_owner = [m \in Mutexes |-> "free"]
    /\ lock_call = [w \in Workers |-> [op |-> "none", pos |-> 0]]

\* the lock step a worker is at, or a step on no mutex when it is at none
NextLockStep(w) ==
    LET steps == LockSteps(lock_call[w].op)
    IN  IF lock_call[w].pos < Len(steps) THEN steps[lock_call[w].pos + 1]
        ELSE [do |-> "none", mutex |-> "none"]

\* a worker enters one of its operations
LockCall ==
    /\ Running
    /\ \E w \in Workers : \E op \in WorkerOps(w) :
          /\ lock_call[w].op = "none"
          /\ lock_call' = [lock_call EXCEPT ![w] = [op |-> op, pos |-> 0]]
    /\ UNCHANGED mutex_owner
    /\ UNCHANGED <<cipherVars, codecVars, serverVars, clientVars, apiVars, engineVars, worldVars,
                   echoVars, tunVars, faketcpVars>>

\* Mutex::lock: returns the guard once the mutex is free, and blocks until then
LockAcquire ==
    /\ Running
    /\ \E w \in Workers :
          /\ NextLockStep(w).do = "lock"
          /\ mutex_owner[NextLockStep(w).mutex] = "free"
          /\ mutex_owner' = [mutex_owner EXCEPT ![NextLockStep(w).mutex] = w]
          /\ lock_call' = [lock_call EXCEPT ![w].pos = @ + 1]
    /\ UNCHANGED <<cipherVars, codecVars, serverVars, clientVars, apiVars, engineVars, worldVars,
                   echoVars, tunVars, faketcpVars>>

\* the drop of a guard
LockRelease ==
    /\ Running
    /\ \E w \in Workers :
          /\ NextLockStep(w).do = "unlock"
          /\ mutex_owner' = [mutex_owner EXCEPT ![NextLockStep(w).mutex] = "free"]
          /\ lock_call' = [lock_call EXCEPT ![w].pos = @ + 1]
    /\ UNCHANGED <<cipherVars, codecVars, serverVars, clientVars, apiVars, engineVars, worldVars,
                   echoVars, tunVars, faketcpVars>>

\* the operation returns
LockReturn ==
    /\ Running
    /\ \E w \in Workers :
          /\ lock_call[w].op # "none"
          /\ lock_call[w].pos = Len(LockSteps(lock_call[w].op))
          /\ lock_call' = [lock_call EXCEPT ![w] = [op |-> "none", pos |-> 0]]
    /\ UNCHANGED mutex_owner
    /\ UNCHANGED <<cipherVars, codecVars, serverVars, clientVars, apiVars, engineVars, worldVars,
                   echoVars, tunVars, faketcpVars>>

----------------------------------------------------------------------------
\* engine.rs: run, with the client transport of main.rs

\* Datagrams a client may receive from the server address: a response with a
\* data frame, one under another key, and one that is no DNS response.
ResponseData == encode_to_response(encrypt(Cipher_new(EngineKey), 0, <<69, 1>>).buf, 4660)

ResponseOtherKey == encode_to_response(encrypt(Cipher_new(OtherKey), 0, <<69, 1>>).buf, 99)

ClientDatagrams == {ResponseData, ResponseOtherKey, NotDnsShort}

\* the ids FakednsClientTransport::send draws
QueryIds == {4660, 22}

\* a datagram the client sent, as the server holding the key reads it
ServerView(data) ==
    LET q == decode_from_query(data)
        p == decrypt(Cipher_new(EngineKey), q.payload)
    IN  [to |-> "server", ok |-> q.ok /\ p.ok,
         payload |-> IF q.ok /\ p.ok THEN p.buf ELSE <<>>]

\* the sockets of the pool
PoolSocks == {pool.sock_ctxs[id].sock : id \in DOMAIN pool.sock_ctxs}

\* what epoll reports: a registered socket with a datagram or an error pending
Readable(sock) == Len(socks[sock].rx) > 0 \/ socks[sock].so_error # "none"

\* encrypt-and-send on a client: Transport::ready_to_send, true by default
ClientReadyToSend ==
    /\ Running
    /\ sw_pc = "ready"
    /\ sw_pc' = "send"
    /\ UNCHANGED <<tun2transport, transport2tun, last_tun_read, now, tr_pc, tr_buf,
                   sw_buf, rw_pc, rw_buf, panic, worldVars>>
    /\ UNCHANGED <<cipherVars, codecVars, kaVars, serverVars, clientVars, apiVars, lockVars, tunVars, faketcpVars, echoVars>>

\* FakednsClientTransport::send: encode_to_query with a random id, then
\* UdpClientTransport::send up to get_or_create_socket_for_sending
ClientSend ==
    /\ Running
    /\ sw_pc = "send"
    /\ \E query_id \in QueryIds, rand \in 0..Cardinality(DOMAIN pool.sock_ctxs),
          io \in SocketResults :
          LET g == get_or_create_socket_for_sending(pool, now, Len(socks) + 1, rand, io)
          IN  /\ pool' = g.pool
              /\ socks' = IF g.created
                          THEN Append(socks, [rx |-> <<>>, so_error |-> "none", sent |-> FALSE])
                          ELSE socks
              /\ sw_buf' = encode_to_query(sw_buf, query_id)
              /\ IF g.err = "none"
                 THEN /\ sw_sock' = [sock_id |-> g.sock_id, sock |-> g.sock, err |-> "none"]
                      /\ sw_pc' = "sock_send"
                      /\ UNCHANGED panic
                 ELSE /\ sw_sock' = NoSock
                      /\ sw_pc' = "failed"
                      /\ panic' = g.err
    /\ UNCHANGED <<tun2transport, transport2tun, last_tun_read, now, tr_pc, tr_buf,
                   rw_pc, rw_buf, worldVars>>
    /\ UNCHANGED <<cipherVars, codecVars, kaVars, serverVars, rw_sock, apiVars, lockVars, tunVars, faketcpVars, echoVars>>

\* UdpClientTransport::send: sock.send, which reports a pending error of the
\* socket; ConnectionRefused keeps the socket, and return Err(e)? hands it to
\* unwrap() in spawn_loop
ClientSockSend ==
    /\ Running
    /\ sw_pc = "sock_send"
    /\ LET e == socks[sw_sock.sock].so_error
       IN  IF e = "none"
           THEN /\ net_out' = Append(net_out, ServerView(sw_buf))
                /\ socks' = [socks EXCEPT ![sw_sock.sock].sent = TRUE]
                /\ sw_pc' = "recv"
                /\ sw_buf' = <<>>
                /\ sw_sock' = NoSock
                /\ UNCHANGED panic
           ELSE /\ socks' = [socks EXCEPT ![sw_sock.sock].so_error = "none"]
                /\ IF removes_socket_on(e)
                   THEN /\ sw_pc' = "send_remove"
                        /\ sw_sock' = [sw_sock EXCEPT !.err = e]
                        /\ UNCHANGED panic
                   ELSE /\ panic' = e
                        /\ sw_pc' = "failed"
                        /\ UNCHANGED sw_sock
                /\ UNCHANGED <<net_out, sw_buf>>
    /\ UNCHANGED <<tun2transport, transport2tun, last_tun_read, now, tr_pc, tr_buf,
                   rw_pc, rw_buf, tun_in, tun_out, net_in, rw_src, valid_src, n_valid,
                   n_marked>>
    /\ UNCHANGED <<cipherVars, codecVars, kaVars, serverVars, pool, rw_sock, apiVars, lockVars, tunVars, faketcpVars, echoVars>>

\* UdpClientTransport::send: remove_socket_by_id after another error, and
\* Err(e) returned to unwrap() in spawn_loop
ClientSendRemove ==
    /\ Running
    /\ sw_pc = "send_remove"
    /\ pool' = remove_socket_by_id(pool, sw_sock.sock_id)
    /\ panic' = sw_sock.err
    /\ sw_pc' = "failed"
    /\ UNCHANGED <<tun2transport, transport2tun, last_tun_read, now, tr_pc, tr_buf,
                   sw_buf, rw_pc, rw_buf, worldVars>>
    /\ UNCHANGED <<cipherVars, codecVars, kaVars, serverVars, socks, sw_sock, rw_sock, apiVars, lockVars, tunVars, faketcpVars, echoVars>>

\* UdpClientTransport::receive: epoll.wait gives the token of a ready socket;
\* receive() holds the token only, and rw_sock.sock notes until the lookup
\* which socket the poll saw
ClientEpollWait ==
    /\ Running
    /\ rw_pc = "receive"
    /\ \E sock \in DOMAIN pool.epoll :
          /\ Readable(sock)
          /\ rw_sock' = [sock_id |-> pool.epoll[sock], sock |-> sock, err |-> "none"]
    /\ rw_pc' = "lookup"
    /\ UNCHANGED <<tun2transport, transport2tun, last_tun_read, now, tr_pc, tr_buf,
                   sw_pc, sw_buf, rw_buf, panic, worldVars>>
    /\ UNCHANGED <<cipherVars, codecVars, kaVars, serverVars, pool, socks, sw_sock, apiVars, lockVars, tunVars, faketcpVars, echoVars>>

\* UdpClientTransport::receive: get_socket_by_id(sock_id).unwrap()
ClientLookup ==
    /\ Running
    /\ rw_pc = "lookup"
    /\ LET r == get_socket_by_id(pool, rw_sock.sock_id)
       IN  IF r.found
           THEN /\ rw_sock' = [rw_sock EXCEPT !.sock = r.sock]
                /\ rw_pc' = "sock_recv"
                /\ UNCHANGED panic
           ELSE /\ panic' = "unwrap on None"
                /\ UNCHANGED <<rw_sock, rw_pc>>
    /\ UNCHANGED <<tun2transport, transport2tun, last_tun_read, now, tr_pc, tr_buf,
                   sw_pc, sw_buf, rw_buf, worldVars>>
    /\ UNCHANGED <<cipherVars, codecVars, kaVars, serverVars, pool, socks, sw_sock, apiVars, lockVars, tunVars, faketcpVars, echoVars>>

\* UdpClientTransport::receive: sock.recv, which reports a pending error of
\* the socket first and times out on an empty socket, and then
\* FakednsClientTransport::receive: decode_from_response
ClientSockRecv ==
    /\ Running
    /\ rw_pc = "sock_recv"
    /\ LET sk == socks[rw_sock.sock]
           e  == IF sk.so_error # "none" THEN sk.so_error
                 ELSE IF Len(sk.rx) = 0 THEN "WouldBlock" ELSE "none"
       IN  IF e = "none"
           THEN LET d == decode_from_response(Head(sk.rx))
                IN  /\ socks' = [socks EXCEPT ![rw_sock.sock].rx = Tail(sk.rx)]
                    /\ IF d.ok
                       THEN /\ rw_buf' = d.payload
                            /\ rw_pc' = "decrypt"
                            /\ UNCHANGED panic
                       ELSE /\ panic' = "CodecError"
                            /\ rw_pc' = "failed"
                            /\ UNCHANGED rw_buf
                    /\ rw_sock' = NoSock
           ELSE /\ socks' = [socks EXCEPT ![rw_sock.sock].so_error = "none"]
                /\ IF removes_socket_on(e)
                   THEN /\ rw_pc' = "recv_remove"
                        /\ rw_sock' = [rw_sock EXCEPT !.err = e]
                        /\ UNCHANGED panic
                   ELSE /\ panic' = e
                        /\ rw_pc' = "failed"
                        /\ UNCHANGED rw_sock
                /\ UNCHANGED rw_buf
    /\ UNCHANGED <<tun2transport, transport2tun, last_tun_read, now, tr_pc, tr_buf,
                   sw_pc, sw_buf, worldVars>>
    /\ UNCHANGED <<cipherVars, codecVars, kaVars, serverVars, pool, sw_sock, apiVars, lockVars, tunVars, faketcpVars, echoVars>>

\* UdpClientTransport::receive: remove_socket_by_id after another error, and
\* Err(e) returned to unwrap() in spawn_loop
ClientRecvRemove ==
    /\ Running
    /\ rw_pc = "recv_remove"
    /\ pool' = remove_socket_by_id(pool, rw_sock.sock_id)
    /\ panic' = rw_sock.err
    /\ rw_pc' = "failed"
    /\ UNCHANGED <<tun2transport, transport2tun, last_tun_read, now, tr_pc, tr_buf,
                   sw_pc, sw_buf, rw_buf, worldVars>>
    /\ UNCHANGED <<cipherVars, codecVars, kaVars, serverVars, socks, sw_sock, rw_sock, apiVars, lockVars, tunVars, faketcpVars, echoVars>>

\* recv-and-decrypt on a client: Transport::mark_last_received_valid, which
\* does nothing by default
ClientMark ==
    /\ Running
    /\ rw_pc = "mark"
    /\ n_marked' = n_marked + 1
    /\ rw_pc' = "push"
    /\ UNCHANGED <<tun2transport, transport2tun, last_tun_read, now, tr_pc, tr_buf,
                   sw_pc, sw_buf, rw_buf, panic, tun_in, tun_out, net_in, rw_src, valid_src,
                   n_valid, net_out>>
    /\ UNCHANGED <<cipherVars, codecVars, kaVars, serverVars, clientVars, apiVars, lockVars, tunVars, faketcpVars, echoVars>>

\* UdpClientTransport::needs_keepalive
UdpClientTransport_needs_keepalive == TRUE

\* UdpServerTransport::needs_keepalive
UdpServerTransport_needs_keepalive == FALSE

\* Transport::needs_keepalive as the trait gives it to an impl that does not
\* define it: one value, the same for every such impl
Transport_needs_keepalive_defaults == BOOLEAN

\* impl Transport for FakednsClientTransport: send and receive only
FakednsClientTransport_needs_keepalive(default) == default

\* impl Transport for FakednsServerTransport: send, receive,
\* mark_last_received_valid and ready_to_send only
FakednsServerTransport_needs_keepalive(default) == default

\* the transports main() hands to run()
RunTransports == {"FakednsClientTransport", "FakednsServerTransport"}

\* run: if transport.needs_keepalive() { spawn_loop(..) }, reached after the
\* four workers were spawned
EngineSpawnKeepalive ==
    /\ Running
    /\ ka_pc = "unspawned"
    /\ \E transport \in RunTransports, default \in Transport_needs_keepalive_defaults :
          /\ run_transport' = transport
          /\ ka_pc' = IF (IF transport = "FakednsClientTransport"
                          THEN FakednsClientTransport_needs_keepalive(default)
                          ELSE FakednsServerTransport_needs_keepalive(default))
                      THEN "wake" ELSE "off"
    /\ UNCHANGED <<tun2transport, transport2tun, last_tun_read, now, tr_pc, tr_buf,
                   sw_pc, sw_buf, rw_pc, rw_buf, panic, ka_last, ka_now, ka_wake,
                   ka_pushes, worldVars>>
    /\ UNCHANGED <<cipherVars, codecVars, serverVars, clientVars, apiVars, lockVars, tunVars, faketcpVars, echoVars>>

keepalive_due_always(t, last_tun_read_v) == TRUE

keepalive_due_after_two(t, last_tun_read_v) == t > last_tun_read_v + 2 * KEEPALIVE_INTERVAL

\* keepalive: if now > last_tun_read_v + KEEPALIVE_INTERVAL
keepalive_due(t, last_tun_read_v) == t > last_tun_read_v + KEEPALIVE_INTERVAL

\* keepalive: a wakeup, up to thread::sleep(last_tun_read_v +
\* KEEPALIVE_INTERVAL - now) when nothing is due
KeepaliveWake ==
    /\ Running
    /\ ka_pc = "wake"
    /\ now >= ka_wake
    /\ ka_last' = last_tun_read
    /\ ka_now' = now
    /\ IF keepalive_due(now, last_tun_read)
       THEN /\ ka_pc' = "push"
            /\ UNCHANGED ka_wake
       ELSE /\ ka_wake' = now + (last_tun_read + KEEPALIVE_INTERVAL - now)
            /\ UNCHANGED ka_pc
    /\ UNCHANGED <<ka_pushes, run_transport>>
    /\ UNCHANGED <<tun2transport, transport2tun, last_tun_read, now, tr_pc, tr_buf,
                   sw_pc, sw_buf, rw_pc, rw_buf, panic, worldVars>>
    /\ UNCHANGED <<cipherVars, codecVars, serverVars, clientVars, apiVars, lockVars, tunVars, faketcpVars, echoVars>>

\* keepalive: tun2transport_sender.send(BytesMut::new())
KeepalivePush ==
    /\ Running
    /\ ka_pc = "push"
    /\ Len(tun2transport) < CHANNEL_SIZE
    /\ tun2transport' = channel_send(tun2transport, <<>>)
    /\ ka_pushes' = Append(ka_pushes, [sampled |-> ka_now, at |-> now])
    /\ ka_pc' = "stamp"
    /\ UNCHANGED <<transport2tun, last_tun_read, now, tr_pc, tr_buf,
                   sw_pc, sw_buf, rw_pc, rw_buf, panic, ka_last, ka_now, ka_wake,
                   run_transport, worldVars>>
    /\ UNCHANGED <<cipherVars, codecVars, serverVars, clientVars, apiVars, lockVars, tunVars, faketcpVars, echoVars>>

\* keepalive: last_tun_read_v = now, *last_tun_read.lock() = now, and
\* thread::sleep(last_tun_read_v + KEEPALIVE_INTERVAL - now): a full interval
\* from the moment of the call
KeepaliveStamp ==
    /\ Running
    /\ ka_pc = "stamp"
    /\ last_tun_read' = ka_now
    /\ ka_last' = ka_now
    /\ ka_wake' = now + (ka_now + KEEPALIVE_INTERVAL - ka_now)
    /\ ka_pc' = "wake"
    /\ UNCHANGED <<tun2transport, transport2tun, now, tr_pc, tr_buf,
                   sw_pc, sw_buf, rw_pc, rw_buf, panic, ka_now, ka_pushes,
                   run_transport, worldVars>>
    /\ UNCHANGED <<cipherVars, codecVars, serverVars, clientVars, apiVars, lockVars, tunVars, faketcpVars, echoVars>>

\* the network: a datagram from the server arrives at a socket that has sent
NetDeliverFrom(limit, Datagrams) ==
    /\ Running
    /\ net_in < limit
    /\ \E sock \in PoolSocks, d \in Datagrams[net_in + 1] :
          /\ socks[sock].sent
          /\ socks' = [socks EXCEPT ![sock].rx = Append(@, d)]
    /\ net_in' = net_in + 1
    /\ UNCHANGED <<engineVars, tun_in, tun_out, rw_src, valid_src, n_valid, n_marked, net_out>>
    /\ UNCHANGED <<cipherVars, codecVars, serverVars, pool, sw_sock, rw_sock, apiVars, lockVars, tunVars, faketcpVars, echoVars>>

NetDeliver == NetDeliverFrom(MaxDatagrams, [n \in 1..MaxDatagrams |-> ClientDatagrams])
\* the network: an ICMP message (port or host unreachable) answers a
\* datagram a socket has sent
NetErrorWithin(limit) ==
    /\ Running
    /\ net_in < limit
    /\ \E sock \in PoolSocks, e \in IcmpErrors :
          /\ socks[sock].sent
          /\ socks' = [socks EXCEPT ![sock].so_error = e]
    /\ net_in' = net_in + 1
    /\ UNCHANGED <<engineVars, tun_in, tun_out, rw_src, valid_src, n_valid, n_marked, net_out>>
    /\ UNCHANGED <<cipherVars, codecVars, serverVars, pool, sw_sock, rw_sock, apiVars, lockVars, tunVars, faketcpVars, echoVars>>

NetError == NetErrorWithin(MaxDatagrams)

\* time passes
TickSecs == KEEPALIVE_INTERVAL

ClockTick ==
    /\ Running
    /\ now < MaxTicks * TickSecs
    /\ now' = now + TickSecs
    /\ UNCHANGED <<tun2transport, transport2tun, last_tun_read, tr_pc, tr_buf,
                   sw_pc, sw_buf, rw_pc, rw_buf, panic, worldVars>>
    /\ UNCHANGED <<cipherVars, codecVars, kaVars, serverVars, clientVars, apiVars, lockVars, tunVars, faketcpVars, echoVars>>

----------------------------------------------------------------------------
\* transport/udp.rs: test_multiple_request_response.  A UdpClientTransport and
\* a UdpServerTransport over a network that loses, reorders and changes
\* nothing; the client's calls to the socket API succeed.

\* the number of requests followed
EchoRequests == MaxSends + 1

\* format!("{}", i).as_bytes(): the decimal digits of i
RECURSIVE Digits(_)
Digits(i) == IF i < 10 THEN <<48 + i>> ELSE Append(Digits(i \div 10), 48 + (i % 10))

\* the i-th request of the client, counted from 1
EchoRequest(i) == Digits(i - 1)

\* the address a pool socket is bound to: one port per socket
SockAddr(sock) == "client:" \o ToString(sock)

EchoIdle ==
    /\ echo_pc = "send"
    /\ echo_sent = 0
    /\ echo_received = <<>>
    /\ srv_pc = "receive"
    /\ srv_buf = <<>>
    /\ srv_rx = <<>>

\* UdpClientTransport::send up to get_or_create_socket_for_sending
EchoClientSend ==
    /\ echo_pc = "send"
    /\ echo_sent < EchoRequests
    /\ \E rand \in 0..Cardinality(DOMAIN pool.sock_ctxs) :
          LET g == get_or_create_socket_for_sending(pool, now, Len(socks) + 1, rand, "ok")
          IN  /\ pool' = g.pool
              /\ socks' = IF g.created
                          THEN Append(socks, [rx |-> <<>>, so_error |-> "none", sent |-> FALSE])
                          ELSE socks
              /\ sw_sock' = [sock_id |-> g.sock_id, sock |-> g.sock, err |-> "none"]
    /\ echo_pc' = "sock_send"
    /\ UNCHANGED <<echo_sent, echo_received, srv_pc, srv_buf, srv_rx, rw_sock>>
    /\ UNCHANGED <<cipherVars, codecVars, serverVars, apiVars, engineVars, worldVars, lockVars, tunVars, faketcpVars>>

\* UdpClientTransport::send: sock.send; the datagram arrives at the server
EchoClientSockSend ==
    /\ echo_pc = "sock_send"
    /\ srv_rx' = Append(srv_rx, [src |-> SockAddr(sw_sock.sock),
                                 data |-> EchoRequest(echo_sent + 1)])
    /\ socks' = [socks EXCEPT ![sw_sock.sock].sent = TRUE]
    /\ sw_sock' = NoSock
    /\ echo_sent' = echo_sent + 1
    /\ echo_pc' = "receive"
    /\ UNCHANGED <<echo_received, srv_pc, srv_buf, pool, rw_sock>>
    /\ UNCHANGED <<cipherVars, codecVars, serverVars, apiVars, engineVars, worldVars, lockVars, tunVars, faketcpVars>>

\* UdpClientTransport::receive: epoll.wait gives the token of a ready socket
EchoClientEpollWait ==
    /\ echo_pc = "receive"
    /\ \E sock \in DOMAIN pool.epoll :
          /\ Readable(sock)
          /\ rw_sock' = [sock_id |-> pool.epoll[sock], sock |-> sock, err |-> "none"]
    /\ echo_pc' = "lookup"
    /\ UNCHANGED <<echo_sent, echo_received, srv_pc, srv_buf, srv_rx, pool, socks, sw_sock>>
    /\ UNCHANGED <<cipherVars, codecVars, serverVars, apiVars, engineVars, worldVars, lockVars, tunVars, faketcpVars>>

\* UdpClientTransport::receive: get_socket_by_id(sock_id).unwrap()
EchoClientLookup ==
    /\ echo_pc = "lookup"
    /\ LET r == get_socket_by_id(pool, rw_sock.sock_id)
       IN  IF r.found
           THEN /\ rw_sock' = [rw_sock EXCEPT !.sock = r.sock]
                /\ echo_pc' = "sock_recv"
           ELSE /\ echo_pc' = "failed"
                /\ UNCHANGED rw_sock
    /\ UNCHANGED <<echo_sent, echo_received, srv_pc, srv_buf, srv_rx, pool, socks, sw_sock>>
    /\ UNCHANGED <<cipherVars, codecVars, serverVars, apiVars, engineVars, worldVars, lockVars, tunVars, faketcpVars>>

\* UdpClientTransport::receive: sock.recv, which times out on a socket with
\* nothing to read; the test compares what Ok carries with the request
EchoClientSockRecv ==
    /\ echo_pc = "sock_recv"
    /\ IF Len(socks[rw_sock.sock].rx) = 0
       THEN /\ echo_pc' = "failed"
            /\ UNCHANGED <<echo_received, socks>>
       ELSE /\ echo_received' = Append(echo_received, Head(socks[rw_sock.sock].rx))
            /\ socks' = [socks EXCEPT ![rw_sock.sock].rx = Tail(@)]
            /\ echo_pc' = "send"
    /\ rw_sock' = NoSock
    /\ UNCHANGED <<echo_sent, srv_pc, srv_buf, srv_rx, pool, sw_sock>>
    /\ UNCHANGED <<cipherVars, codecVars, serverVars, apiVars, engineVars, worldVars, lockVars, tunVars, faketcpVars>>

\* _run_server: server.receive()
EchoServerReceive ==
    /\ srv_pc = "receive"
    /\ Len(srv_rx) > 0
    /\ udp_server' = UdpServerTransport_receive(udp_server, Head(srv_rx).src)
    /\ srv_buf' = Head(srv_rx).data
    /\ srv_rx' = Tail(srv_rx)
    /\ srv_pc' = "mark"
    /\ UNCHANGED <<echo_pc, echo_sent, echo_received, dns_server>>
    /\ UNCHANGED <<cipherVars, codecVars, clientVars, apiVars, engineVars, worldVars, lockVars, tunVars, faketcpVars>>

\* _run_server: server.mark_last_received_valid()
EchoServerMark ==
    /\ srv_pc = "mark"
    /\ udp_server' = UdpServerTransport_mark_last_received_valid(udp_server)
    /\ srv_pc' = "send"
    /\ UNCHANGED <<echo_pc, echo_sent, echo_received, srv_buf, srv_rx, dns_server>>
    /\ UNCHANGED <<cipherVars, codecVars, clientVars, apiVars, engineVars, worldVars, lockVars, tunVars, faketcpVars>>

\* _run_server: server.send(received)?; the datagram arrives at the socket
\* bound to the address it is sent to
EchoServerSend ==
    /\ srv_pc = "send"
    /\ LET r == UdpServerTransport_send(udp_server)
       IN  IF r.ok
           THEN /\ socks' = [k \in DOMAIN socks |->
                                IF SockAddr(k) = r.to
                                THEN [socks[k] EXCEPT !.rx = Append(@, srv_buf)]
                                ELSE socks[k]]
                /\ srv_pc' = "receive"
           ELSE /\ srv_pc' = "failed"
                /\ UNCHANGED socks
    /\ srv_buf' = <<>>
    /\ UNCHANGED <<echo_pc, echo_sent, echo_received, srv_rx, pool, sw_sock, rw_sock>>
    /\ UNCHANGED <<cipherVars, codecVars, serverVars, apiVars, engineVars, worldVars, lockVars, tunVars, faketcpVars>>

----------------------------------------------------------------------------
\* transport/udp.rs tests: a client transport used by two threads of a caller,
\* one that calls send() and one that calls receive(), as the engine's workers
\* and test_multiple_request_response do; an Err is returned to the caller,
\* which goes on

\* the buffer the caller sends: its content plays no part in the pool
PoolFrame == <<69, 0>>

\* the caller hands a buffer to FakednsClientTransport::send, unless it has
\* made limit calls
PoolSendCallWithin(limit) ==
    /\ Running
    /\ sw_pc = "recv"
    /\ tun_in < limit
    /\ sw_buf' = PoolFrame
    /\ sw_pc' = "send"
    /\ tun_in' = tun_in + 1
    /\ UNCHANGED <<tun2transport, transport2tun, last_tun_read, now, tr_pc, tr_buf,
                   rw_pc, rw_buf, panic, tun_out, net_in, rw_src, valid_src, n_valid,
                   n_marked, net_out>>
    /\ UNCHANGED <<cipherVars, codecVars, kaVars, serverVars, clientVars, apiVars, lockVars, tunVars, faketcpVars, echoVars>>

PoolSendCall == PoolSendCallWithin(MaxSends)

\* receive() returned Ok(buf) to the caller, which calls it again
PoolReceiveReturn ==
    /\ Running
    /\ rw_pc = "decrypt"
    /\ rw_pc' = "receive"
    /\ rw_buf' = <<>>
    /\ UNCHANGED <<tun2transport, transport2tun, last_tun_read, now, tr_pc, tr_buf,
                   sw_pc, sw_buf, panic, worldVars>>
    /\ UNCHANGED <<cipherVars, codecVars, kaVars, serverVars, clientVars, apiVars, lockVars, tunVars, faketcpVars, echoVars>>

\* send() or receive() returned Err(e) to the caller, which goes on
PoolErrorReturn ==
    /\ panic # "none"
    /\ sw_pc = "failed" \/ rw_pc = "failed"
    /\ panic' = "none"
    /\ IF sw_pc = "failed"
       THEN /\ sw_pc' = "recv"
            /\ sw_buf' = <<>>
            /\ sw_sock' = NoSock
            /\ UNCHANGED <<rw_pc, rw_buf, rw_sock>>
       ELSE /\ rw_pc' = "receive"
            /\ rw_buf' = <<>>
            /\ rw_sock' = NoSock
            /\ UNCHANGED <<sw_pc, sw_buf, sw_sock>>
    /\ UNCHANGED <<tun2transport, transport2tun, last_tun_read, now, tr_pc, tr_buf, worldVars>>
    /\ UNCHANGED <<cipherVars, codecVars, kaVars, serverVars, pool, socks, apiVars, lockVars, tunVars, faketcpVars, echoVars>>

\* the time followed: the life of a socket made at the start, and a little more
MaxPoolTime == socket_send_duration + socket_lingering_duration + 2

\* time passes: up to the end of a socket's send window, or just beyond it
PoolTick ==
    /\ \E dt \in {socket_send_duration, socket_send_duration + 1} :
          /\ now + dt <= MaxPoolTime
          /\ now' = now + dt
    /\ UNCHANGED <<tun2transport, transport2tun, last_tun_read, tr_pc, tr_buf,
                   sw_pc, sw_buf, rw_pc, rw_buf, panic, worldVars>>
    /\ UNCHANGED <<cipherVars, codecVars, kaVars, serverVars, clientVars, apiVars, lockVars, tunVars, faketcpVars, echoVars>>

----------------------------------------------------------------------------
\* transport/udp.rs: a client transport whose caller only sends, often enough
\* to fill the pool twice and ask for one socket more

SendsSendCall == PoolSendCallWithin(2 * max_send_sockets + 1)

\* one ICMP error reaches a socket, so that a send() removes it
SendsNetError == NetErrorWithin(1)

----------------------------------------------------------------------------
\* engine.rs: run, from the keepalive decision on, seen from the producers of
\* the tun->transport channel: the tun reader and the keepalive worker

\* the time followed: two keepalive intervals and a little more per tick allowed
MaxKaTime == (MaxTicks + 1) * (KEEPALIVE_INTERVAL + 1)

\* time passes: a keepalive interval exactly, or just more than one
KaTick ==
    /\ Running
    /\ \E dt \in {KEEPALIVE_INTERVAL, KEEPALIVE_INTERVAL + 1} :
          /\ now + dt <= MaxKaTime
          /\ now' = now + dt
    /\ UNCHANGED <<tun2transport, transport2tun, last_tun_read, tr_pc, tr_buf,
                   sw_pc, sw_buf, rw_pc, rw_buf, panic, worldVars>>
    /\ UNCHANGED <<cipherVars, codecVars, kaVars, serverVars, clientVars, apiVars, lockVars, tunVars, faketcpVars, echoVars>>

----------------------------------------------------------------------------
\* engine.rs: run on a client whose tun device stays idle, for as long as it
\* runs.  Time is measured from now: when time passes, now stays 0 and every
\* instant kept moves into the past.

\* instants further back than this are kept as this: the worker compares an
\* instant with now - KEEPALIVE_INTERVAL at the earliest
IdleFloor == 0 - 2 * KEEPALIVE_INTERVAL - 2

\* the instant t once dt seconds have passed
IdlePast(t, dt) == IF t - dt < IdleFloor THEN IdleFloor ELSE t - dt

\* run() called with a UdpClientTransport: if transport.needs_keepalive()
IdleSpawnKeepalive ==
    /\ Running
    /\ ka_pc = "unspawned"
    /\ run_transport' = "UdpClientTransport"
    /\ ka_pc' = IF UdpClientTransport_needs_keepalive THEN "wake" ELSE "off"
    /\ UNCHANGED <<tun2transport, transport2tun, last_tun_read, now, tr_pc, tr_buf,
                   sw_pc, sw_buf, rw_pc, rw_buf, panic, ka_last, ka_now, ka_wake,
                   ka_pushes, worldVars>>
    /\ UNCHANGED <<cipherVars, codecVars, serverVars, clientVars, apiVars, lockVars, tunVars, faketcpVars, echoVars>>

\* encrypt-and-send keeps draining the queue: tun2transport_receiver.recv;
\* what it does with the frame is followed in the client engine
IdleDrain ==
    /\ Running
    /\ Len(tun2transport) > 0
    /\ tun2transport' = Tail(tun2transport)
    /\ UNCHANGED <<transport2tun, last_tun_read, now, tr_pc, tr_buf,
                   sw_pc, sw_buf, rw_pc, rw_buf, panic, worldVars>>
    /\ UNCHANGED <<cipherVars, codecVars, kaVars, serverVars, clientVars, apiVars, lockVars, tunVars, faketcpVars, echoVars>>

\* time passes: a keepalive interval exactly, or just more than one; of the
\* frames the worker has pushed the last one is remembered
IdleTick ==
    /\ Running
    /\ \E dt \in {KEEPALIVE_INTERVAL, KEEPALIVE_INTERVAL + 1} :
          /\ last_tun_read' = IdlePast(last_tun_read, dt)
          /\ ka_last' = IdlePast(ka_last, dt)
          /\ ka_now' = IdlePast(ka_now, dt)
          /\ ka_wake' = IdlePast(ka_wake, dt)
          /\ ka_pushes' = [i \in 1..Min(Len(ka_pushes), 1) |->
                              LET e == ka_pushes[Len(ka_pushes)]
                              IN  [sampled |-> IdlePast(e.sampled, dt), at |-> IdlePast(e.at, dt)]]
    /\ UNCHANGED <<tun2transport, transport2tun, now, tr_pc, tr_buf,
                   sw_pc, sw_buf, rw_pc, rw_buf, panic, ka_pc, run_transport, worldVars>>
    /\ UNCHANGED <<cipherVars, codecVars, serverVars, clientVars, apiVars, lockVars, tunVars, faketcpVars, echoVars>>

----------------------------------------------------------------------------
\* engine.rs: run on a server, with long streams of packets and datagrams:
\* enough to fill a channel

\* the length of a stream: a channel's slots, the frame its producer then
\* holds, the two datagrams of the stream that carry nothing for the tun
\* device, and some that the consumer has taken
FifoLen == CHANNEL_SIZE + 3 + MaxTunPackets

\* the n-th packet of the tun device
FifoPacket(n) == <<69, n>>

\* the n-th datagram from peerA: the second under another key, the third a
\* keepalive, the others data frames that carry the n-th packet
FifoDatagram(n) ==
    [src  |-> "peerA",
     data |-> IF n = 2 THEN QueryOtherKey
              ELSE IF n = 3 THEN QueryKeepalive
              ELSE encode_to_query(encrypt(Cipher_new(EngineKey), 0, FifoPacket(n)).buf, n)]

\* how far one stream goes: to its end while the other has given nothing,
\* and the two together for their first MaxDatagrams items
FifoLimit(other) ==
    IF other = 0 THEN FifoLen ELSE IF other <= MaxDatagrams THEN MaxDatagrams ELSE 0

\* tun-reader: tun.read of the next packet of the stream
FifoTunRead == TunReadFrom(FifoLimit(net_in), [n \in 1..(FifoLimit(net_in)) |-> {FifoPacket(n)}])
\* recv-and-decrypt: receive of the next datagram of the stream
FifoServerReceive == ServerReceiveFrom(FifoLimit(tun_in), [n \in 1..(FifoLimit(tun_in)) |-> {FifoDatagram(n)}])
----------------------------------------------------------------------------
\* Specifications

EngineIdle ==
    /\ tun2transport = <<>>
    /\ transport2tun = <<>>
    /\ now = 0
    /\ last_tun_read = 0 - 2 * KEEPALIVE_INTERVAL
    /\ tr_pc = "read" /\ tr_buf = <<>>
    /\ sw_pc = "recv" /\ sw_buf = <<>>
    /\ rw_pc = "receive" /\ rw_buf = <<>>
    /\ panic = "none"
    /\ ka_pc = "wake" /\ ka_last = 0 /\ ka_now = 0 /\ ka_wake = 0
    /\ ka_pushes = <<>>
    /\ run_transport = "none"

WorldIdle ==
    /\ tun_in = 0
    /\ tun_out = <<>>
    /\ net_in = 0
    /\ rw_src = None
    /\ valid_src = None
    /\ n_valid = 0
    /\ n_marked = 0
    /\ net_out = <<>>

----------------------------------------------------------------------------
\* faketcp/socket.rs: Socket.  Two sockets as in test_interconnect, "local"
\* from new_connect and "remote" from new_listened, each fed what the other
\* has sent, and packets of any content arriving besides.

TCP_FLAG_SYN == 2

TCP_FLAG_ACK == 16

TCP_FLAG_RST == 4

\* a u32, kept as its two 16-bit halves: [hi, lo]
U32Of(hi, lo) == [hi |-> hi, lo |-> lo]

U32Zero == U32Of(0, 0)

\* u32::MAX
U32Max == U32Of(65535, 65535)

\* test_interconnect: local_addr and remote_addr
TcpAddr == [local  |-> [ip |-> <<127, 0, 0, 1>>, port |-> 1234],
            remote |-> [ip |-> <<127, 0, 0, 1>>, port |-> 1235]]

TcpSides == {"local", "remote"}

\* the socket at the other end
TcpPeer(side) == IF side = "local" THEN "remote" ELSE "local"

\* BufMut::put_u32: big-endian
put_u32(v) == put_u16(v.hi) \o put_u16(v.lo)

\* Buf::get_u32 at offset off
get_u32(buf, off) == U32Of(get_u16(buf, off), get_u16(buf, off + 2))

\* BufMut::put_u16_ne: the byte order of the target
put_u16_ne(v, little_endian) == IF little_endian THEN <<v % 256, (v \div 256) % 256>> ELSE put_u16(v)

\* ones_complement_add_by_16bit: the loop over data, from the idx-th byte on
RECURSIVE ones_complement_sum(_, _, _)
ones_complement_sum(data, idx, sum) ==
    IF idx > Len(data) THEN sum
    ELSE ones_complement_sum(data, idx + 1,
                             sum + (IF (idx - 1) % 2 = 0 THEN data[idx] ELSE data[idx] * 256))

\* ones_complement_add_by_16bit: while (sum >> 16) > 0
RECURSIVE ones_complement_fold(_)
ones_complement_fold(sum) ==
    IF sum \div 65536 > 0 THEN ones_complement_fold((sum % 65536) + (sum \div 65536)) ELSE sum

ones_complement_add_by_16bit(data, init) ==
    ones_complement_fold(ones_complement_sum(data, 1, init))

\* Socket::_send_tcp_packet: the packet handed to raw_sock.send
Socket_send_tcp_packet(side, sock, flags, options, data, little_endian) ==
    LET local_addr == TcpAddr[side]
        remote_addr == TcpAddr[TcpPeer(side)]
        pseudo_header == local_addr.ip \o remote_addr.ip \o <<0, 6>>
                         \o put_u16(20 + Len(options) + Len(data))
        packet == put_u16(local_addr.port) \o put_u16(remote_addr.port)
                  \o put_u32(sock.next_send_seq) \o put_u32(sock.next_recv_seq)
                  \o <<((5 + Len(options) \div 4) * 16) % 256, flags, 255, 255>>
        checksum == ones_complement_add_by_16bit(data,
                        ones_complement_add_by_16bit(options,
                            ones_complement_add_by_16bit(packet,
                                ones_complement_add_by_16bit(pseudo_header, 0))))
    IN  packet \o put_u16_ne(65535 - checksum, little_endian) \o <<0, 0>> \o options \o data

\* Socket::_send_syn: kind = 3, length = 3, scale factor = 14
window_scaling_option == <<3, 3, 14, 0>>

\* an addition of a u32 and a small number: it overflows, which a build with
\* overflow checks answers with a panic and any other by wrapping
u32_overflows(a, n) == a.hi + ((a.lo + n) \div 65536) >= 65536

u32_wrapping_add(a, n) ==
    U32Of((a.hi + ((a.lo + n) \div 65536)) % 65536, (a.lo + n) % 65536)

\* u32::max
u32_max(a, b) == IF a.hi > b.hi \/ (a.hi = b.hi /\ a.lo > b.lo) THEN a ELSE b

\* Socket::_send_syn: gen_range(0..(u32::MAX / 2)), its ends 0 and 0x7ffffffe
SeqStarts == {U32Zero, U32Of(32767, 65534)}

\* Socket::_send_syn with the sequence number drawn: the packet, and the
\* socket after it, next_send_seq counted on only when the send succeeded
Socket_send_syn(side, sock, with_ack, drawn, little_endian, sent) ==
    LET s1 == [sock EXCEPT !.next_send_seq = drawn]
    IN  [pkt  |-> Socket_send_tcp_packet(side, s1,
                      IF with_ack THEN TCP_FLAG_SYN + TCP_FLAG_ACK ELSE TCP_FLAG_SYN,
                      window_scaling_option, <<>>, little_endian),
         sock |-> IF sent THEN [s1 EXCEPT !.next_send_seq = u32_wrapping_add(drawn, 1)] ELSE s1]

\* feed_packet, SynSent: flags == (TCP_FLAG_ACK | TCP_FLAG_SYN) && ack_n == self.next_send_seq
syn_sent_accepts_any_ack(flags, ack_n, next_send_seq) == flags = TCP_FLAG_ACK + TCP_FLAG_SYN

syn_sent_accepts(flags, ack_n, next_send_seq) ==
    flags = TCP_FLAG_ACK + TCP_FLAG_SYN /\ ack_n = next_send_seq

\* feed_packet, SynReceived: flags == TCP_FLAG_ACK && ack_n == self.next_send_seq
syn_received_accepts(flags, ack_n, next_send_seq) ==
    flags = TCP_FLAG_ACK /\ ack_n = next_send_seq

\* Socket::feed_packet: [sock, ok, data, out, panicked], out the packets
\* handed to raw_sock.send; drawn is the number _send_syn draws and sent
\* whether raw_sock.send succeeds
Socket_feed_packet(side, sock, pkt, build, drawn, sent) ==
    LET Result(so, ok, data, out) ==
            [sock |-> so, ok |-> ok, data |-> data, out |-> out, panicked |-> FALSE]
        Panic(so) == [sock |-> so, ok |-> FALSE, data |-> <<>>, out |-> <<>>, panicked |-> TRUE]
        Err == Result(sock, FALSE, <<>>, <<>>)
    IN  IF Len(pkt) < 20 THEN Err
        ELSE IF get_u16(pkt, 0) # TcpAddr[TcpPeer(side)].port
                \/ get_u16(pkt, 2) # TcpAddr[side].port THEN Err
        ELSE LET seq_n == get_u32(pkt, 4)
                 ack_n == get_u32(pkt, 8)
                 data_offset == ((pkt[13] \div 16) * 4) % 256
                 flags == pkt[14]
                 skip_size == 6 + data_offset - 20
                 remaining == Len(pkt) - 14 - skip_size
                 rest == SubSeq(pkt, 14 + skip_size + 1, Len(pkt))
             IN  IF data_offset < 20 THEN Err
                 ELSE IF Len(pkt) - 14 < skip_size THEN Err
                 ELSE CASE sock.state = "SynSent" ->
                             IF syn_sent_accepts(flags, ack_n, sock.next_send_seq)
                             THEN LET s1 == [sock EXCEPT !.state = "Established"]
                                      s2 == [s1 EXCEPT !.next_recv_seq = u32_wrapping_add(seq_n, 1)]
                                  IN  IF build.debug /\ u32_overflows(seq_n, 1) THEN Panic(s1)
                                      ELSE IF sent
                                      THEN Result(s2, TRUE, <<>>,
                                               <<Socket_send_tcp_packet(side, s2, TCP_FLAG_ACK, <<>>, <<>>,
                                                                        build.little_endian)>>)
                                      ELSE Result(s2, FALSE, <<>>, <<>>)
                             ELSE Result(sock, TRUE, <<>>, <<>>)
                        [] sock.state = "Initial" ->
                             IF flags = TCP_FLAG_SYN
                             THEN LET s1 == [sock EXCEPT !.state = "SynReceived"]
                                      s2 == [s1 EXCEPT !.next_recv_seq = u32_wrapping_add(seq_n, 1)]
                                      syn == Socket_send_syn(side, s2, TRUE, drawn, build.little_endian, sent)
                                  IN  IF build.debug /\ u32_overflows(seq_n, 1) THEN Panic(s1)
                                      ELSE IF sent THEN Result(syn.sock, TRUE, <<>>, <<syn.pkt>>)
                                      ELSE Result(syn.sock, FALSE, <<>>, <<>>)
                             ELSE Result(sock, TRUE, <<>>, <<>>)
                        [] sock.state = "SynReceived" ->
                             IF syn_received_accepts(flags, ack_n, sock.next_send_seq)
                             THEN Result([sock EXCEPT !.state = "Established"], TRUE, <<>>, <<>>)
                             ELSE Result(sock, TRUE, <<>>, <<>>)
                        [] sock.state = "Established" ->
                             IF flags = TCP_FLAG_ACK
                             THEN IF build.debug /\ u32_overflows(seq_n, remaining) THEN Panic(sock)
                                  ELSE Result([sock EXCEPT !.next_recv_seq =
                                                  u32_max(@, u32_wrapping_add(seq_n, remaining))],
                                              TRUE, rest, <<>>)
                             ELSE Result(sock, TRUE, <<>>, <<>>)

\* the builds: with or without overflow checks, for either byte order
TcpBuilds == [debug : BOOLEAN, little_endian : BOOLEAN]

\* the number of packets a socket has sent and the other has not been fed,
\* beyond which send is not called
MaxInFlight == 1

\* the number of feed_packet calls followed
MaxFeeds == 4

\* test_interconnect: b"hello"
Hello == <<104, 101, 108, 108, 111>>

\* Socket::new_connect for the local side
TcpNewConnect ==
    /\ ~tcp_panic
    /\ tcp_sock["local"].state = "none"
    /\ \E drawn \in SeqStarts :
          LET syn == Socket_send_syn("local",
                         [state |-> "SynSent", next_send_seq |-> U32Zero, next_recv_seq |-> U32Zero],
                         FALSE, drawn, tcp_build.little_endian, TRUE)
          IN  /\ tcp_sock' = [tcp_sock EXCEPT !["local"] = syn.sock]
              /\ tcp_sent' = [tcp_sent EXCEPT !["local"] = Append(@, syn.pkt)]
    /\ UNCHANGED <<tcp_fed, tcp_build, tcp_panic>>
    /\ UNCHANGED <<cipherVars, codecVars, serverVars, clientVars, apiVars, engineVars, worldVars,
                   lockVars, echoVars, tunVars, timerVars>>

\* Socket::new_listened for the remote side
TcpNewListened ==
    /\ ~tcp_panic
    /\ tcp_sock["remote"].state = "none"
    /\ tcp_sock' = [tcp_sock EXCEPT !["remote"] =
                       [state |-> "Initial", next_send_seq |-> U32Zero, next_recv_seq |-> U32Zero]]
    /\ UNCHANGED <<tcp_sent, tcp_fed, tcp_build, tcp_panic>>
    /\ UNCHANGED <<cipherVars, codecVars, serverVars, clientVars, apiVars, engineVars, worldVars,
                   lockVars, echoVars, tunVars, timerVars>>

\* Socket::send: assert!(self.ready()), the packet, next_send_seq counted on
TcpSend(side) ==
    /\ ~tcp_panic
    /\ tcp_sock[side].state # "none"
    /\ Len(tcp_sent[side]) < MaxInFlight
    /\ \E data \in {Hello} :
          IF tcp_sock[side].state # "Established"
          THEN /\ tcp_panic' = TRUE
               /\ UNCHANGED <<tcp_sock, tcp_sent>>
          ELSE /\ tcp_sent' = [tcp_sent EXCEPT ![side] =
                                  Append(@, Socket_send_tcp_packet(side, tcp_sock[side], TCP_FLAG_ACK,
                                                                   <<>>, data, tcp_build.little_endian))]
               /\ tcp_sock' = [tcp_sock EXCEPT ![side].next_send_seq = u32_wrapping_add(@, Len(data))]
               /\ UNCHANGED tcp_panic
    /\ UNCHANGED <<tcp_fed, tcp_build>>
    /\ UNCHANGED <<cipherVars, codecVars, serverVars, clientVars, apiVars, engineVars, worldVars,
                   lockVars, echoVars, tunVars, timerVars>>

\* Socket::feed_packet on the socket of a side, the packet given
TcpFeedPacket(side, pkt, sent_after) ==
    /\ ~tcp_panic
    /\ tcp_sock[side].state # "none"
    /\ tcp_fed.n < MaxFeeds
    /\ \E drawn \in SeqStarts, sent \in BOOLEAN :
          LET r == Socket_feed_packet(side, tcp_sock[side], pkt, tcp_build, drawn, sent)
          IN  /\ tcp_sock' = [tcp_sock EXCEPT ![side] = r.sock]
              /\ tcp_sent' = [sent_after EXCEPT ![side] = @ \o r.out]
              /\ tcp_fed' = [n |-> tcp_fed.n + 1, to |-> side, pkt |-> pkt, ok |-> r.ok, data |-> r.data]
              /\ tcp_panic' = r.panicked
    /\ UNCHANGED tcp_build
    /\ UNCHANGED <<cipherVars, codecVars, serverVars, clientVars, apiVars, engineVars, worldVars,
                   lockVars, echoVars, tunVars, timerVars>>

\* feed_packet with the next packet the other socket has sent
TcpFeed(side) ==
    /\ tcp_sent[TcpPeer(side)] # <<>>
    /\ TcpFeedPacket(side, Head(tcp_sent[TcpPeer(side)]),
                     [tcp_sent EXCEPT ![TcpPeer(side)] = Tail(@)])

\* a TCP segment of any content: the fields feed_packet reads, the checksum
\* and the urgent pointer left zero
RawSegment(src_port, dst_port, seq_n, ack_n, offset_words, flags, tail) ==
    put_u16(src_port) \o put_u16(dst_port) \o put_u32(seq_n) \o put_u32(ack_n)
    \o <<offset_words * 16, flags, 255, 255, 0, 0, 0, 0>> \o tail

\* the flags of the packets that arrive from elsewhere
ForgedFlags == {0, TCP_FLAG_SYN, TCP_FLAG_ACK, TCP_FLAG_SYN + TCP_FLAG_ACK, TCP_FLAG_RST,
                TCP_FLAG_ACK + 8}

\* the packets that arrive at a side from elsewhere.  Well-formed ones: every
\* flag combination above with the acknowledgement the socket waits for; the
\* accepted combinations with the next acknowledgement instead; those that
\* make the socket count with the largest sequence number; data under
\* accepted and other flags.  Malformed ones: a wrong source port, a data
\* offset below the header, beyond the packet and over options, and a packet
\* shorter than a header
ForgedPackets(side) ==
    LET src == TcpAddr[TcpPeer(side)].port
        dst == TcpAddr[side].port
        ack == tcp_sock[side].next_send_seq
    IN  { RawSegment(src, dst, U32Zero, ack, 5, flags, <<>>) : flags \in ForgedFlags }
        \cup { RawSegment(src, dst, U32Zero, u32_wrapping_add(ack, 1), 5, flags, <<>>) :
                   flags \in {TCP_FLAG_ACK, TCP_FLAG_SYN + TCP_FLAG_ACK} }
        \cup { RawSegment(src, dst, U32Max, ack, 5, flags, <<>>) :
                   flags \in {TCP_FLAG_SYN, TCP_FLAG_SYN + TCP_FLAG_ACK} }
        \cup { RawSegment(src, dst, seq_n, ack, 5, TCP_FLAG_ACK, Hello) : seq_n \in {U32Zero, U32Max} }
        \cup { RawSegment(src, dst, U32Zero, ack, 5, flags, Hello) :
                   flags \in {TCP_FLAG_SYN + TCP_FLAG_ACK, TCP_FLAG_ACK + 8} }
        \cup { RawSegment(dst, dst, U32Zero, ack, 5, TCP_FLAG_SYN, <<>>),
               RawSegment(src, dst, U32Zero, ack, 4, TCP_FLAG_SYN, <<>>),
               RawSegment(src, dst, U32Zero, ack, 15, TCP_FLAG_ACK, Hello),
               RawSegment(src, dst, U32Zero, ack, 6, TCP_FLAG_ACK, window_scaling_option \o Hello),
               SubSeq(RawSegment(src, dst, U32Zero, ack, 5, TCP_FLAG_SYN, <<>>), 1, 19) }

\* feed_packet with a packet from elsewhere
TcpFeedForged(side) ==
    \E pkt \in ForgedPackets(side) : TcpFeedPacket(side, pkt, tcp_sent)

----------------------------------------------------------------------------
\* faketcp/timer_runner.rs: TimerRunner.  One caller that schedules and
\* cancels jobs, the runner thread, and the clock, in milliseconds.

\* run_thread_loop: MAX_WAIT_TIME
MAX_WAIT_TIME == 1000

\* the number of schedule calls followed
MaxJobs == 2

\* the number of cancel calls followed
MaxCancels == 1

\* the time followed, in steps of the clock
MaxTimerTicks == 3

\* test_timers: the delays of the jobs, and no delay
TimerDelays == {0, 100, 200}

\* the step in which the clock is seen to advance
TimerStep == 100

\* TimerJobId(Instant, i64)
TimerJobId(due, id) == [due |-> due, id |-> id]

\* derive(PartialOrd, Ord) on TimerJobId: by the instant, then by the number
TimerJobId_le(a, b) == a.due < b.due \/ (a.due = b.due /\ a.id <= b.id)

\* BTreeMap::first_key_value: the least key
first_key(q) == CHOOSE k \in q : \A o \in q : TimerJobId_le(k, o)

\* an Option<Duration>
NoDuration == [some |-> FALSE, ms |-> 0]

SomeDuration(ms) == [some |-> TRUE, ms |-> ms]

\* get_first_job_delay: if now > k.0 { now - k.0 } else { Duration::ZERO }
get_first_job_delay(q, t) ==
    IF q = {} THEN NoDuration
    ELSE IF t > first_key(q).due THEN SomeDuration(t - first_key(q).due) ELSE SomeDuration(0)

\* Option::unwrap_or
unwrap_or(opt, default) == IF opt.some THEN opt.ms ELSE default

\* TimerRunner::new: the thread is spawned
TimerNew ==
    /\ runner_pc = "none"
    /\ runner_pc' = "lock"
    /\ UNCHANGED <<timer_jobs, next_job_id, timer_now, runner_until, runner_job, timer_ran,
                   timer_calls>>
    /\ UNCHANGED <<cipherVars, codecVars, serverVars, clientVars, apiVars, engineVars, worldVars,
                   lockVars, echoVars, tunVars, socketVars>>

\* TimerRunner::schedule
TimerSchedule ==
    /\ runner_pc # "none"
    /\ next_job_id < MaxJobs
    /\ \E delay \in TimerDelays :
          LET job_id == TimerJobId(timer_now + delay, next_job_id)
          IN  /\ timer_jobs' = timer_jobs \cup {job_id}
              /\ timer_calls' = Append(timer_calls,
                                       [op |-> "schedule", job |-> job_id, ret |-> TRUE])
    /\ next_job_id' = next_job_id + 1
    /\ UNCHANGED <<timer_now, runner_pc, runner_until, runner_job, timer_ran>>
    /\ UNCHANGED <<cipherVars, codecVars, serverVars, clientVars, apiVars, engineVars, worldVars,
                   lockVars, echoVars, tunVars, socketVars>>

\* the cancel calls made so far
Cancels == {i \in 1..Len(timer_calls) : timer_calls[i].op = "cancel"}

\* TimerRunner::cancel with an id that schedule has returned
TimerCancel ==
    /\ runner_pc # "none"
    /\ Cardinality(Cancels) < MaxCancels
    /\ \E i \in 1..Len(timer_calls) :
          /\ timer_calls[i].op = "schedule"
          /\ timer_jobs' = timer_jobs \ {timer_calls[i].job}
          /\ timer_calls' = Append(timer_calls,
                                   [op |-> "cancel", job |-> timer_calls[i].job,
                                    ret |-> timer_calls[i].job \in timer_jobs])
    /\ UNCHANGED <<next_job_id, timer_now, runner_pc, runner_until, runner_job, timer_ran>>
    /\ UNCHANGED <<cipherVars, codecVars, serverVars, clientVars, apiVars, engineVars, worldVars,
                   lockVars, echoVars, tunVars, socketVars>>

\* run_thread_loop, from the lock on: the wait returns at once when its
\* condition is false, and then the first job is popped; otherwise the
\* thread waits, for wait_timeout at most
RunnerLock ==
    /\ runner_pc = "lock"
    /\ IF get_first_job_delay(timer_jobs, timer_now) = SomeDuration(0)
       THEN /\ runner_job' = first_key(timer_jobs)
            /\ timer_jobs' = timer_jobs \ {first_key(timer_jobs)}
            /\ runner_pc' = "job"
            /\ UNCHANGED runner_until
       ELSE /\ runner_until' = timer_now + unwrap_or(get_first_job_delay(timer_jobs, timer_now),
                                                     MAX_WAIT_TIME)
            /\ runner_pc' = "wait"
            /\ UNCHANGED <<timer_jobs, runner_job>>
    /\ UNCHANGED <<next_job_id, timer_now, timer_ran, timer_calls>>
    /\ UNCHANGED <<cipherVars, codecVars, serverVars, clientVars, apiVars, engineVars, worldVars,
                   lockVars, echoVars, tunVars, socketVars>>

\* run_thread_loop: the thread wakes in wait_timeout_while (notified, timed
\* out, or for no reason) and finds the condition false, or the timeout over:
\* the first job is popped if its delay is zero
RunnerWake ==
    /\ runner_pc = "wait"
    /\ IF get_first_job_delay(timer_jobs, timer_now) = SomeDuration(0)
       THEN /\ runner_job' = first_key(timer_jobs)
            /\ timer_jobs' = timer_jobs \ {first_key(timer_jobs)}
            /\ runner_pc' = "job"
       ELSE /\ timer_now >= runner_until
            /\ runner_pc' = "lock"
            /\ UNCHANGED <<timer_jobs, runner_job>>
    /\ UNCHANGED <<next_job_id, timer_now, runner_until, timer_ran, timer_calls>>
    /\ UNCHANGED <<cipherVars, codecVars, serverVars, clientVars, apiVars, engineVars, worldVars,
                   lockVars, echoVars, tunVars, socketVars>>

\* run_thread_loop: job()
RunnerJob ==
    /\ runner_pc = "job"
    /\ timer_ran' = Append(timer_ran, [job |-> runner_job, at |-> timer_now])
    /\ runner_pc' = "lock"
    /\ UNCHANGED <<timer_jobs, next_job_id, timer_now, runner_until, runner_job, timer_calls>>
    /\ UNCHANGED <<cipherVars, codecVars, serverVars, clientVars, apiVars, engineVars, worldVars,
                   lockVars, echoVars, tunVars, socketVars>>

\* time passes
TimerTick ==
    /\ runner_pc # "none"
    /\ timer_now < MaxTimerTicks * TimerStep
    /\ timer_now' = timer_now + TimerStep
    /\ UNCHANGED <<timer_jobs, next_job_id, runner_pc, runner_until, runner_job, timer_ran,
                   timer_calls>>
    /\ UNCHANGED <<cipherVars, codecVars, serverVars, clientVars, apiVars, engineVars, worldVars,
                   lockVars, echoVars, tunVars, socketVars>>

\* the tun-reader has pushed nothing
TunIdle == tr_pushes = <<>>

\* no Socket has been created
SocketIdle ==
    /\ tcp_sock = [side \in {"local", "remote"} |->
                      [state |-> "none", next_send_seq |-> U32Zero, next_recv_seq |-> U32Zero]]
    /\ tcp_sent = [side \in {"local", "remote"} |-> <<>>]
    /\ tcp_fed = [n |-> 0, to |-> "none", pkt |-> <<>>, ok |-> TRUE, data |-> <<>>]
    /\ tcp_build = [debug |-> FALSE, little_endian |-> TRUE]
    /\ tcp_panic = FALSE

\* no TimerRunner has been created
TimerIdle ==
    /\ timer_jobs = {}
    /\ next_job_id = 0
    /\ timer_now = 0
    /\ runner_pc = "none"
    /\ runner_until = 0
    /\ runner_job = [due |-> 0, id |-> 0]
    /\ timer_ran = <<>>
    /\ timer_calls = <<>>

Init ==
    /\ CipherIdle /\ CodecIdle /\ ServerIdle /\ ClientIdle /\ ApiIdle /\ EngineIdle /\ WorldIdle
    /\ LocksIdle /\ EchoIdle /\ TunIdle /\ SocketIdle /\ TimerIdle

CipherNext ==
    \/ CipherEncrypt(0..VPN_MTU)
    \/ CipherDecrypt
    \/ CipherDecryptWrongKey

\* every plaintext length of test_all_sizes, encrypted and decrypted
SpecCipher == Init /\ [][CipherNext]_vars

TamperNext ==
    \/ CipherEncrypt(TamperLens)
    \/ CipherDecrypt
    \/ CipherDecryptWrongKey
    \/ CipherDecryptFlipped

\* frames that are tampered with on the wire
SpecTamper == Init /\ [][TamperNext]_vars

WireNext ==
    \/ WireDecrypt
    \/ WireDecodeQuery
    \/ WireDecodeResponse

\* arbitrary, truncated and malformed buffers handed to decrypt and the decoders
SpecWire == Init /\ [][WireNext]_vars

QueryNext ==
    \/ QueryEncode
    \/ QueryDecode

\* test_encode_decode_query, in either build
SpecQuery == Init /\ [][QueryNext]_vars

QuestionsNext ==
    \/ QueryEncodeAny
    \/ QueryDecode

\* encode_to_query over its whole domain, in either build
SpecQuestions == Init /\ [][QuestionsNext]_vars

ResponseNext ==
    \/ ResponseEncode
    \/ ResponseDecode

\* test_encode_decode_response, in either build
SpecResponse == Init /\ [][ResponseNext]_vars

UdpServerNext ==
    \/ ApiReceive
    \/ ApiReceiveError
    \/ ApiMarkLastReceivedValid
    \/ ApiReadyToSend
    \/ ApiSend

\* a UdpServerTransport under any sequence of its calls
SpecUdpServer == Init /\ [][UdpServerNext]_vars

ServerNext ==
    \/ TunRead
    \/ TunPush
    \/ TunStamp
    \/ SendWorkerRecv
    \/ ServerReadyToSend
    \/ ServerSendEncode
    \/ ServerSendTo
    \/ ServerReceive
    \/ RecvDecrypt
    \/ ServerMarkQueryId
    \/ ServerMarkPeer
    \/ RecvPush
    \/ TunWrite

\* the engine of `kissvpn serve`
SpecServer == Init /\ [][ServerNext]_vars

ClientNext ==
    \/ TunRead
    \/ TunPush
    \/ TunStamp
    \/ SendWorkerRecv
    \/ ClientReadyToSend
    \/ ClientSend
    \/ ClientSockSend
    \/ ClientSendRemove
    \/ ClientEpollWait
    \/ ClientLookup
    \/ ClientSockRecv
    \/ ClientRecvRemove
    \/ RecvDecrypt
    \/ ClientMark
    \/ RecvPush
    \/ TunWrite
    \/ KeepaliveWake
    \/ KeepalivePush
    \/ KeepaliveStamp
    \/ NetDeliver
    \/ NetError
    \/ ClockTick

\* the engine of `kissvpn connect`
SpecClient == Init /\ [][ClientNext]_vars

\* run() has spawned the four workers and not yet asked needs_keepalive()
InitAtRun ==
    /\ CipherIdle /\ CodecIdle /\ ServerIdle /\ ClientIdle /\ ApiIdle /\ WorldIdle
    /\ LocksIdle /\ EchoIdle /\ TunIdle /\ SocketIdle /\ TimerIdle
    /\ tun2transport = <<>>
    /\ transport2tun = <<>>
    /\ now = 0
    /\ last_tun_read = 0 - 2 * KEEPALIVE_INTERVAL
    /\ tr_pc = "read" /\ tr_buf = <<>>
    /\ sw_pc = "recv" /\ sw_buf = <<>>
    /\ rw_pc = "receive" /\ rw_buf = <<>>
    /\ panic = "none"
    /\ ka_pc = "unspawned" /\ ka_last = 0 /\ ka_now = 0 /\ ka_wake = 0
    /\ ka_pushes = <<>>
    /\ run_transport = "none"

KeepaliveNext ==
    \/ EngineSpawnKeepalive
    \/ TunRead
    \/ TunPush
    \/ TunStamp
    \/ KeepaliveWake
    \/ KeepalivePush
    \/ KeepaliveStamp
    \/ KaTick

\* run() with either transport of main(): the producers of tun->transport
SpecKeepalive == InitAtRun /\ [][KeepaliveNext]_vars

EgressNext ==
    \/ EngineSpawnKeepalive
    \/ TunRead
    \/ EgressTunPush
    \/ TunStamp
    \/ KeepaliveWake
    \/ KeepalivePush
    \/ KeepaliveStamp
    \/ KaTick

\* run(): the tun-reader and the keepalive worker side by side, the instants
\* of the tun-reader's pushes recorded
SpecEgress == InitAtRun /\ [][EgressNext]_vars

\* two sockets are about to be created, in some build
InitSockets ==
    /\ CipherIdle /\ CodecIdle /\ ServerIdle /\ ClientIdle /\ ApiIdle /\ EngineIdle /\ WorldIdle
    /\ LocksIdle /\ EchoIdle /\ TunIdle /\ TimerIdle
    /\ tcp_sock = [side \in TcpSides |->
                      [state |-> "none", next_send_seq |-> U32Zero, next_recv_seq |-> U32Zero]]
    /\ tcp_sent = [side \in TcpSides |-> <<>>]
    /\ tcp_fed = [n |-> 0, to |-> "none", pkt |-> <<>>, ok |-> TRUE, data |-> <<>>]
    /\ tcp_build \in TcpBuilds
    /\ tcp_panic = FALSE

SocketNext ==
    \/ TcpNewConnect
    \/ TcpNewListened
    \/ \E side \in TcpSides : TcpSend(side)
    \/ \E side \in TcpSides : TcpFeed(side)
    \/ \E side \in TcpSides : TcpFeedForged(side)

\* a connecting and a listening Socket, fed each other's packets and others
SpecSocket == InitSockets /\ [][SocketNext]_vars

TimerNext ==
    \/ TimerNew
    \/ TimerSchedule
    \/ TimerCancel
    \/ RunnerLock
    \/ RunnerWake
    \/ RunnerJob
    \/ TimerTick

\* a TimerRunner, its thread and its caller
SpecTimer == Init /\ [][TimerNext]_vars

IdleNext ==
    \/ IdleSpawnKeepalive
    \/ KeepaliveWake
    \/ KeepalivePush
    \/ KeepaliveStamp
    \/ IdleDrain
    \/ IdleTick

\* run() on an idle client, without end: every worker is a thread of its own
\* and is scheduled again and again, and time passes
SpecIdle ==
    /\ InitAtRun
    /\ [][IdleNext]_vars
    /\ WF_vars(IdleSpawnKeepalive)
    /\ WF_vars(KeepaliveWake)
    /\ WF_vars(KeepalivePush)
    /\ WF_vars(KeepaliveStamp)
    /\ WF_vars(IdleDrain)
    /\ WF_vars(IdleTick)

\* one packet for the tun-reader and one event of the network, so that every
\* worker is at work when one of them meets an error
ExitTunRead == TunReadFrom(1, [n \in 1..1 |-> {<<69>>}])
ExitNetDeliver == NetDeliverFrom(1, [n \in 1..1 |-> ClientDatagrams])
ExitNetError == NetErrorWithin(1)

ExitNext ==
    \/ ExitTunRead
    \/ TunReadError
    \/ TunPush
    \/ TunStamp
    \/ SendWorkerRecv
    \/ ClientReadyToSend
    \/ ClientSend
    \/ ClientSockSend
    \/ ClientSendRemove
    \/ ClientEpollWait
    \/ ClientLookup
    \/ ClientSockRecv
    \/ ClientRecvRemove
    \/ RecvDecrypt
    \/ ClientMark
    \/ RecvPush
    \/ TunWrite
    \/ TunWriteError
    \/ KeepaliveWake
    \/ KeepalivePush
    \/ KeepaliveStamp
    \/ ExitNetDeliver
    \/ ExitNetError

\* the engine of `kissvpn connect` with its five workers, each of them with
\* the errors its calls can return
SpecExit == Init /\ [][ExitNext]_vars

FifoNext ==
    \/ FifoTunRead
    \/ TunPush
    \/ TunStamp
    \/ SendWorkerRecv
    \/ ServerReadyToSend
    \/ ServerSendEncode
    \/ ServerSendTo
    \/ FifoServerReceive
    \/ RecvDecrypt
    \/ ServerMarkQueryId
    \/ ServerMarkPeer
    \/ RecvPush
    \/ TunWrite

\* the engine of `kissvpn serve` under load
SpecFifo == Init /\ [][FifoNext]_vars

LocksNext ==
    \/ EngineSpawnKeepalive
    \/ LockCall
    \/ LockAcquire
    \/ LockRelease
    \/ LockReturn

\* run() with either transport of main(): the lock() calls of its workers
SpecLocks == InitAtRun /\ [][LocksNext]_vars

EchoNext ==
    \/ EchoClientSend
    \/ EchoClientSockSend
    \/ EchoClientEpollWait
    \/ EchoClientLookup
    \/ EchoClientSockRecv
    \/ EchoServerReceive
    \/ EchoServerMark
    \/ EchoServerSend
    \/ PoolTick

\* test_multiple_request_response, with time passing between any two steps
SpecEcho == Init /\ [][EchoNext]_vars

FramesNext ==
    \/ CipherEncrypt(0..VPN_MTU)
    \/ FrameEncodeQuery
    \/ FrameEncodeResponse

\* every tun packet and the keepalive, encrypted and encoded for a DNS transport
SpecFrames == Init /\ [][FramesNext]_vars

\* two peers holding the key, each sending queries under an id of its own
PeerDatagrams ==
    {[src |-> "peerA", data |-> QueryData], [src |-> "peerB", data |-> QueryKeepalive]}

PeerServerReceive == ServerReceiveFrom(MaxDatagrams, [n \in 1..MaxDatagrams |-> PeerDatagrams])
PeerNext ==
    \/ TunRead
    \/ TunPush
    \/ TunStamp
    \/ SendWorkerRecv
    \/ ServerReadyToSend
    \/ ServerSendEncode
    \/ ServerSendTo
    \/ PeerServerReceive
    \/ RecvDecrypt
    \/ ServerMarkQueryId
    \/ ServerMarkPeer
    \/ RecvPush
    \/ TunWrite

\* the engine of `kissvpn serve` with two clients
SpecPeers == Init /\ [][PeerNext]_vars

PoolNext ==
    \/ PoolSendCall
    \/ ClientSend
    \/ ClientSockSend
    \/ ClientSendRemove
    \/ ClientEpollWait
    \/ ClientLookup
    \/ ClientSockRecv
    \/ ClientRecvRemove
    \/ PoolReceiveReturn
    \/ PoolErrorReturn
    \/ NetDeliver
    \/ NetError
    \/ PoolTick

\* a client transport under concurrent send() and receive() calls
SpecPool == Init /\ [][PoolNext]_vars

SendsNext ==
    \/ SendsSendCall
    \/ ClientSend
    \/ ClientSockSend
    \/ ClientSendRemove
    \/ PoolErrorReturn
    \/ SendsNetError
    \/ PoolTick

\* a client transport under send() calls over the life of its sockets
SpecSends == Init /\ [][SendsNext]_vars

----------------------------------------------------------------------------
\* Claims about the server transport

IsMark(k) == api_hist[k].op = "mark_last_received_valid"

IsReceived(k) == api_hist[k].op = "receive" /\ api_hist[k].ret = "Ok"

\* some mark_last_received_valid() is among the first n calls
Marked(n) == \E j \in 1..n : IsMark(j)

\* some mark_last_received_valid() among the first n calls came after a
\* receive() that succeeded
Promoted(n) == \E j \in 1..n : IsMark(j) /\ \E i \in 1..(j - 1) : IsReceived(i)

\* C3 as stated: ready_to_send() is false as long as mark_last_received_valid()
\* was never called and true after its first call, whatever else was called.
C3_ReadyAfterFirstMark ==
    /\ UdpServerTransport_ready_to_send(udp_server) = Marked(Len(api_hist))
    /\ \A k \in 1..Len(api_hist) :
          api_hist[k].op = "ready_to_send" => api_hist[k].ret = Marked(k - 1)

\* C3 as amended: ready_to_send() is false as long as
\* mark_last_received_valid() was never called, however many receive() calls
\* succeeded, and true in every state after the first
\* mark_last_received_valid() that follows a successful receive(); a mark
\* made before any successful receive() leaves it false.
C3_ReadyAfterFirstMarkOfReceived ==
    /\ ~Marked(Len(api_hist)) => ~UdpServerTransport_ready_to_send(udp_server)
    /\ UdpServerTransport_ready_to_send(udp_server) = Promoted(Len(api_hist))
    /\ \A k \in 1..Len(api_hist) :
          api_hist[k].op = "ready_to_send" => api_hist[k].ret = Promoted(k - 1)

C3_Witness ==
    /\ Len(api_hist) >= 5
    /\ IsMark(1) /\ api_hist[2].op = "ready_to_send" /\ api_hist[2].ret = FALSE
    /\ IsReceived(3)
    /\ IsMark(4) /\ api_hist[5].op = "ready_to_send" /\ api_hist[5].ret = TRUE

\* C4: the peer latch has no reverse transition: once peer_addr is Some it
\* stays Some, and it changes only in mark_last_received_valid(), to the
\* last_peer_addr of that moment.
C4_NoReverseTransition ==
    [][/\ udp_server.peer_addr # None => udp_server'.peer_addr # None
       /\ udp_server'.peer_addr # udp_server.peer_addr =>
             /\ Len(api_hist') = Len(api_hist) + 1
             /\ api_hist'[Len(api_hist')].op = "mark_last_received_valid"
             /\ udp_server'.peer_addr = udp_server.last_peer_addr]_vars

\* a send went to peerA and the latch has since moved on to peerB
C4_Witness ==
    /\ udp_server.peer_addr = "peerB"
    /\ \E k \in 1..Len(api_hist) :
          api_hist[k].op = "send" /\ api_hist[k].ret = "Ok" /\ api_hist[k].arg = "peerA"

----------------------------------------------------------------------------
\* Claims about the engine of a server

\* C1: the server sends no datagram before a received datagram has decrypted
\* successfully and mark_last_received_valid() has run for it; every datagram
\* sent goes to an address.
C1_NoEgressBeforeValidIngress ==
    /\ n_marked <= n_valid
    /\ Len(net_out) > 0 => n_valid >= 1 /\ n_marked >= 1
    /\ \A i \in 1..Len(net_out) : net_out[i].to \in Addrs

C1_Witness ==
    /\ Len(net_out) > 0
    /\ n_marked >= 1
    /\ net_in >= 1

C5_SendNeverAddrNotAvailable ==
    /\ [](/\ panic # "AddrNotAvailable"
          /\ sw_pc \in {"send", "send_to"} => udp_server.peer_addr # None)
    /\ [][(sw_pc = "ready" /\ sw_pc' # "ready"
              /\ ~UdpServerTransport_ready_to_send(udp_server)) =>
             /\ sw_pc' = "recv"
             /\ sw_buf' = <<>>
             /\ UNCHANGED <<net_out, panic, tun2transport>>]_vars

\* the one frame read from the tun device was taken from the channel and dropped
C5_Witness ==
    /\ tun_in = 1
    /\ tr_pc # "push"
    /\ tun2transport = <<>>
    /\ sw_pc = "recv"
    /\ net_out = <<>>
    /\ panic = "none"

\* C6 as stated: a datagram the DNS codec cannot decode is not fatal on the
\* receive path.
C6_CodecErrorNotFatal == panic # "CodecError"

\* C8: when decrypt of a received datagram fails, the datagram is discarded
\* and nothing else changes: neither latch moves, nothing is pushed to or
\* taken from the transport->tun channel, no error is raised, and the worker
\* goes on to the next receive.
C8_DecryptFailureDiscards ==
    [][(rw_pc = "decrypt" /\ rw_pc' # "decrypt"
           /\ ~decrypt(Cipher_new(EngineKey), rw_buf).ok) =>
          /\ rw_pc' = "receive"
          /\ UNCHANGED <<udp_server, dns_server, transport2tun, tun_out, net_out,
                         n_marked, n_valid, panic>>]_vars

\* the only datagram so far decoded as a query and failed to decrypt
C8_Witness ==
    /\ rw_pc = "receive"
    /\ net_in = 1
    /\ n_valid = 0
    /\ n_marked = 0
    /\ udp_server.last_peer_addr # None
    /\ udp_server.peer_addr = None
    /\ panic = "none"

\* C20: every frame written to the tun device, and every entry of the
\* transport->tun channel, is non-empty; a datagram that decrypts to an empty
\* payload (a keepalive) goes on to mark_last_received_valid(), after which
\* the server is ready to send, to the source of the keepalive, and is then
\* dropped: nothing is pushed to the channel and no error is raised.
C20_KeepaliveMarksButIsNotForwarded ==
    /\ [](/\ \A i \in 1..Len(tun_out) : Len(tun_out[i]) > 0
          /\ \A i \in 1..Len(transport2tun) : Len(transport2tun[i]) > 0)
    /\ [][/\ (rw_pc = "decrypt" /\ rw_pc' # "decrypt"
               /\ decrypt(Cipher_new(EngineKey), rw_buf).ok
               /\ decrypt(Cipher_new(EngineKey), rw_buf).buf = <<>>) =>
                (rw_pc' = "mark" /\ rw_buf' = <<>>)
          /\ (rw_pc = "mark_udp" /\ rw_pc' = "push" /\ rw_buf = <<>>) =>
                /\ UdpServerTransport_ready_to_send(udp_server')
                /\ udp_server'.peer_addr = rw_src
          /\ (rw_pc = "push" /\ rw_pc' # "push" /\ rw_buf = <<>>) =>
                /\ rw_pc' = "receive"
                /\ UNCHANGED <<transport2tun, tun_out, panic>>]_vars

\* the only datagram so far was a keepalive: it decrypted, the server is
\* ready to send, and nothing went to the channel or the tun device
C20_Witness ==
    /\ rw_pc = "receive"
    /\ net_in = 1
    /\ n_valid = 1
    /\ n_marked = 1
    /\ UdpServerTransport_ready_to_send(udp_server)
    /\ transport2tun = <<>>
    /\ tun_out = <<>>
    /\ panic = "none"

\* the source and the query id of each datagram that peers holding the key send
PeerQueries == {[src |-> d.src, id |-> decode_from_query(d.data).id] : d \in PeerDatagrams}

\* C25: every response the server sends carries the id of a validated query
\* and goes to the address that same query came from, whatever the
\* interleaving of send() with receive() and mark_last_received_valid(); the
\* placeholder id of create() is never sent.
C25_ResponseIdAndPeerOfOneQuery ==
    \A i \in 1..Len(net_out) :
        /\ [src |-> net_out[i].to, id |-> net_out[i].id] \in PeerQueries
        /\ net_out[i].id # FakednsServerTransport_create.query_id

----------------------------------------------------------------------------
\* Claims about the engine's channels

\* the number of packets the encrypt-and-send worker has taken from tun->transport
FifoTaken == tun_in - Len(tun2transport) - (IF tr_pc = "push" THEN 1 ELSE 0)

\* the number of datagrams recv-and-decrypt has decrypted or dropped
FifoDecrypted == IF rw_pc = "decrypt" THEN net_in - 1 ELSE net_in

\* the payloads for the tun device that the first m datagrams carry, in order
FifoPayloads(m) ==
    SelectSeq([n \in 1..m |-> FifoPacket(n)], LAMBDA pkt : pkt[2] \notin {2, 3})

\* the payloads on their way to the tun device and those written, oldest first
FifoInFlight ==
    tun_out \o transport2tun \o
        (IF rw_pc \in {"mark", "mark_udp", "push"} /\ rw_buf # <<>> THEN <<rw_buf>> ELSE <<>>)

\* C23: tun->transport holds the packets read and not yet taken, in the order
\* read, and the encrypt-and-send worker takes, encrypts and sends them in
\* that order; the frames written to the tun device, then those in
\* transport->tun, then the one recv-and-decrypt holds, are the non-empty
\* payloads of the datagrams received that decrypted, each once, in the order
\* received; neither channel holds more than CHANNEL_SIZE frames, and a
\* producer at a full channel keeps its frame and waits.
C23_FifoNoLoss ==
    /\ [](/\ \A i \in 1..Len(tun2transport) : tun2transport[i] = FifoPacket(FifoTaken + i)
          /\ tr_pc = "push" => tr_buf = FifoPacket(tun_in)
          /\ \A i, j \in 1..Len(net_out) :
                i < j => (net_out[i].ok /\ net_out[j].ok
                          /\ net_out[i].payload[2] < net_out[j].payload[2])
          /\ FifoInFlight = FifoPayloads(FifoDecrypted)
          /\ Len(tun2transport) <= CHANNEL_SIZE
          /\ Len(transport2tun) <= CHANNEL_SIZE)
    /\ [][/\ (sw_pc = "recv" /\ sw_pc' = "ready") =>
                decrypt(Cipher_new(EngineKey), sw_buf').buf = FifoPacket(FifoTaken + 1)
          /\ (tr_pc = "push" /\ Len(tun2transport) = CHANNEL_SIZE) =>
                (tr_pc' = "push" /\ tr_buf' = tr_buf)
          /\ (rw_pc = "push" /\ rw_buf # <<>> /\ Len(transport2tun) = CHANNEL_SIZE) =>
                (rw_pc' = "push" /\ rw_buf' = rw_buf)]_vars

\* tun->transport is full, the tun reader waits with the next packet, and the
\* encrypt-and-send worker has taken packets before
C23_Witness ==
    /\ Len(tun2transport) = CHANNEL_SIZE
    /\ tr_pc = "push"
    /\ FifoTaken >= 1

----------------------------------------------------------------------------
\* Claims about the keepalive worker

\* a step in which the keepalive worker decides, pushes, stamps, or sleeps
KeepaliveDecidesPush == ka_pc = "wake" /\ ka_pc' = "push"

KeepaliveSleeps == ka_pc = "wake" /\ ka_pc' = "wake" /\ ka_wake' # ka_wake

\* C21: the keepalive worker pushes an empty frame only after a wakeup at
\* which now > last_tun_read + KEEPALIVE_INTERVAL, and then sets
\* last_tun_read to the now of that wakeup; at a wakeup where that does not
\* hold it pushes nothing and sleeps until the last_tun_read it read plus
\* KEEPALIVE_INTERVAL; no other step puts an empty frame into the channel;
\* and any two keepalive pushes are at least KEEPALIVE_INTERVAL apart, by the
\* now of their wakeups and by the time the channel took them.
C21_KeepaliveOnlyWhenDue ==
    /\ [](\A i, j \in 1..Len(ka_pushes) :
            i < j => /\ ka_pushes[j].sampled - ka_pushes[i].sampled >= KEEPALIVE_INTERVAL
                     /\ ka_pushes[j].at - ka_pushes[i].at >= KEEPALIVE_INTERVAL)
    /\ [][/\ KeepaliveDecidesPush =>
                /\ now > last_tun_read + KEEPALIVE_INTERVAL
                /\ ka_now' = now
                /\ UNCHANGED <<tun2transport, last_tun_read>>
          /\ (ka_pc = "push" /\ ka_pc' = "stamp") =>
                /\ tun2transport' = Append(tun2transport, <<>>)
                /\ UNCHANGED <<last_tun_read, ka_now>>
          /\ (ka_pc = "stamp" /\ ka_pc' = "wake") =>
                /\ last_tun_read' = ka_now
                /\ ka_wake' >= ka_now + KEEPALIVE_INTERVAL
                /\ UNCHANGED tun2transport
          /\ KeepaliveSleeps =>
                /\ ~(now > last_tun_read + KEEPALIVE_INTERVAL)
                /\ ka_wake' = last_tun_read + KEEPALIVE_INTERVAL
                /\ UNCHANGED <<tun2transport, last_tun_read>>
          /\ (Len(tun2transport') > Len(tun2transport)
                 /\ tun2transport'[Len(tun2transport')] = <<>>) =>
                (ka_pc = "push" /\ ka_pc' = "stamp")]_vars

\* two keepalives were pushed, and between them a wakeup found nothing due
C21_Witness ==
    /\ Len(ka_pushes) >= 2
    /\ ka_pushes[2].at - ka_pushes[1].at > KEEPALIVE_INTERVAL + 1
    /\ tun_in >= 1

\* C35: on a client whose tun device stays idle, the first wakeup of the
\* keepalive worker finds a keepalive due, whenever it comes, and pushes an
\* empty frame without sleeping first; and with the queue being drained
\* the worker pushes an empty frame again and again for ever, any two of
\* them at least KEEPALIVE_INTERVAL apart.
C35_KeepaliveForever ==
    /\ [][(KeepaliveWake /\ ka_pushes = <<>>) =>
             (ka_pc' = "push" /\ ka_now' > last_tun_read + KEEPALIVE_INTERVAL)]_vars
    /\ [][(KeepalivePush /\ ka_pushes # <<>>) =>
             now - ka_pushes[Len(ka_pushes)].at >= KEEPALIVE_INTERVAL]_vars
    /\ <>(ka_pushes # <<>>)
    /\ []<><<KeepalivePush>>_vars

\* a keepalive has been pushed, an interval has passed since, and the worker
\* has woken up and is about to push the next one
C35_Witness ==
    /\ run_transport = "UdpClientTransport"
    /\ Len(ka_pushes) >= 1
    /\ ka_pushes[Len(ka_pushes)].at < 0 - KEEPALIVE_INTERVAL
    /\ ka_pc = "push"
    /\ tun_in = 0

\* C36: under every interleaving of the tun-reader and the keepalive worker,
\* the keepalive worker never pushes an empty frame less than
\* KEEPALIVE_INTERVAL after the tun-reader pushed a packet, and last_tun_read
\* never moves backwards.
C36_NoKeepaliveWhileActive ==
    /\ [][KeepalivePush =>
             \A i \in 1..Len(tr_pushes) : now - tr_pushes[i] >= KEEPALIVE_INTERVAL]_vars
    /\ [][last_tun_read' >= last_tun_read]_vars

\* the flags and the acknowledgement number of a packet, as TCP lays them out
SegmentFlags(pkt) == pkt[14]

SegmentAck(pkt) == SubSeq(pkt, 9, 12)

\* C37: a Socket's state only moves forward.  SynSent becomes Established,
\* and only in a feed_packet call with a packet whose flags are exactly
\* SYN|ACK and whose ack is the socket's next_send_seq; Initial becomes
\* SynReceived, and only on flags exactly SYN; SynReceived becomes
\* Established, and only on flags exactly ACK with ack equal to
\* next_send_seq; Established is never left; and a feed_packet call returns
\* data that is not empty only on an Established socket and flags exactly ACK.
C37_SocketOnlyMovesForward ==
    [][\A side \in TcpSides :
          LET old == tcp_sock[side]
              new == tcp_sock'[side]
              fed == tcp_fed'.n = tcp_fed.n + 1 /\ tcp_fed'.to = side
              flags == SegmentFlags(tcp_fed'.pkt)
              acked == SegmentAck(tcp_fed'.pkt) = put_u32(old.next_send_seq)
          IN  /\ (old.state # "none" /\ new.state # old.state) =>
                    /\ fed
                    /\ Len(tcp_fed'.pkt) >= 20
                    /\ \/ /\ old.state = "SynSent" /\ new.state = "Established"
                          /\ flags = TCP_FLAG_SYN + TCP_FLAG_ACK /\ acked
                       \/ /\ old.state = "Initial" /\ new.state = "SynReceived"
                          /\ flags = TCP_FLAG_SYN
                       \/ /\ old.state = "SynReceived" /\ new.state = "Established"
                          /\ flags = TCP_FLAG_ACK /\ acked
              /\ (old.state = "none" /\ new.state # "none") =>
                    new.state = IF side = "local" THEN "SynSent" ELSE "Initial"
              /\ (fed /\ tcp_fed'.data # <<>>) =>
                    /\ old.state = "Established"
                    /\ flags = TCP_FLAG_ACK]_vars

\* test_interconnect: both sockets are Established after the three packets of
\* the handshake, and the fourth hands "hello" to the remote side
C37_Witness ==
    /\ tcp_sock["local"].state = "Established"
    /\ tcp_sock["remote"].state = "Established"
    /\ tcp_fed.n = 4
    /\ tcp_fed.to = "remote"
    /\ tcp_fed.data = Hello
    /\ tcp_sent = [side \in TcpSides |-> <<>>]

\* the jobs the runner has run, as a set
RanJobs == {timer_ran[i].job : i \in 1..Len(timer_ran)}

\* a job is pending from the schedule call on until the runner takes it from
\* the queue or a cancel call removes it
WasPending(job, upto) ==
    /\ \E i \in 1..upto : timer_calls[i].op = "schedule" /\ timer_calls[i].job = job
    /\ ~\E i \in 1..upto : timer_calls[i].op = "cancel" /\ timer_calls[i].job = job
                           /\ timer_calls[i].ret
    /\ job \notin RanJobs
    /\ ~(runner_pc = "job" /\ runner_job = job)

\* C38: jobs run at most once each, in non-decreasing order of their due
\* time with ties in scheduling order, and not before their due time; cancel
\* returns true exactly when the job was still pending; and a job whose
\* cancel returned true never runs.
C38_TimerJobsRunInOrderWhenDue ==
    /\ [](\A i \in 1..Len(timer_ran) : timer_ran[i].at >= timer_ran[i].job.due)
    /\ [](\A i, j \in 1..Len(timer_ran) :
             i < j => /\ timer_ran[i].job # timer_ran[j].job
                      /\ TimerJobId_le(timer_ran[i].job, timer_ran[j].job))
    /\ [][TimerCancel =>
             LET call == timer_calls'[Len(timer_calls')]
             IN  call.ret = WasPending(call.job, Len(timer_calls))]_vars
    /\ [](\A i \in 1..Len(timer_calls) :
             (timer_calls[i].op = "cancel" /\ timer_calls[i].ret) =>
                 timer_calls[i].job \notin RanJobs)

\* C22 as stated: with the DNS client transport the keepalive worker runs,
\* with the DNS server transport it does not and no empty frame enters the
\* tun->transport channel.
C22_KeepaliveFollowsInnerTransport ==
    /\ run_transport = "FakednsClientTransport" =>
          (UdpClientTransport_needs_keepalive /\ ka_pc \in {"wake", "push", "stamp"})
    /\ run_transport = "FakednsServerTransport" =>
          /\ ~UdpServerTransport_needs_keepalive
          /\ ka_pc = "off"
          /\ \A i \in 1..Len(tun2transport) : tun2transport[i] # <<>>

\* C30: in receive(), the id the poll has returned is in the pool when it
\* is looked up and names the socket the poll saw ready, whatever a
\* concurrent send() evicts or removes: the lookup never meets None and never
\* finds another socket under the id.
C30_LookupFindsPolledSocket ==
    /\ panic # "unwrap on None"
    /\ rw_pc = "lookup" =>
          /\ rw_sock.sock_id \in DOMAIN pool.sock_ctxs
          /\ pool.sock_ctxs[rw_sock.sock_id].sock = rw_sock.sock

----------------------------------------------------------------------------
\* Claims about the echo test

\* the request the client waits for: at the server's socket, in the server's
\* hands, or back at a socket of the pool that the poll watches
EchoInFlight ==
    (IF Len(srv_rx) > 0 THEN 1 ELSE 0)
    + (IF srv_pc \in {"mark", "send"} THEN 1 ELSE 0)
    + Cardinality({sock \in DOMAIN pool.epoll :
                      /\ Len(socks[sock].rx) > 0
                      /\ \E id \in DOMAIN pool.sock_ctxs : pool.sock_ctxs[id].sock = sock})

----------------------------------------------------------------------------
\* Claims about the mutexes

HeldBy(w) == {m \in Mutexes : mutex_owner[m] = w}

\* the worker is inside lock() on a mutex that is not free
WaitsFor(w) ==
    IF NextLockStep(w).do = "lock" /\ mutex_owner[NextLockStep(w).mutex] # "free"
    THEN {mutex_owner[NextLockStep(w).mutex]}
    ELSE {}

\* C26: no set of threads is reachable in which each waits for a mutex held
\* by one of the set; the holder of the pool mutex holds no other mutex; and
\* a lock() by a thread that holds a guard is that of peer_addr with exactly
\* last_peer_addr held, never the opposite order.
C26_NoDeadlock ==
    /\ [](\A S \in SUBSET Workers \ {{}} : \E w \in S : WaitsFor(w) \cap S = {})
    /\ [](\A w \in Workers : "sock_ctxs" \in HeldBy(w) => HeldBy(w) = {"sock_ctxs"})
    /\ [][\A w \in Workers, m \in Mutexes :
            mutex_owner[m] # w /\ mutex_owner'[m] = w /\ HeldBy(w) # {} =>
                HeldBy(w) = {"last_peer_addr"} /\ m = "peer_addr"]_vars

\* mark_last_received_valid holds both guards while send waits for peer_addr
C26_Witness ==
    /\ HeldBy("recv-and-decrypt") = {"last_peer_addr", "peer_addr"}
    /\ WaitsFor("encrypt-and-send") = {"recv-and-decrypt"}

----------------------------------------------------------------------------
\* Claims about the workers' errors

\* the errors the steps of the five workers return, each at the unwrap() of
\* spawn_loop
WorkerFailed == panic # "none"

----------------------------------------------------------------------------
\* Claims about the client socket pool

\* the pool ids whose entry is send-eligible at time t
SendEligibleIds(p, t) ==
    {id \in DOMAIN p.sock_ctxs : p.sock_ctxs[id].created >= t - socket_send_duration}

\* the pool ids whose entry is expired at time t
ExpiredIds(p, t) ==
    {id \in DOMAIN p.sock_ctxs :
        p.sock_ctxs[id].created < t - socket_send_duration - socket_lingering_duration}

\* the sockets of pool p
SocksOf(p) == {p.sock_ctxs[id].sock : id \in DOMAIN p.sock_ctxs}

\* C15: in every state of the client pool, whatever send() and receive()
\* calls interleave and whatever time has passed, the number of entries
\* whose age is within socket_send_duration is at most max_send_sockets.
C15_SendEligibleAtMostMax ==
    Cardinality(SendEligibleIds(pool, now)) <= max_send_sockets

\* max_send_sockets entries are send-eligible, an older one lingers beside them
C15_Witness ==
    /\ Cardinality(SendEligibleIds(pool, now)) = max_send_sockets
    /\ Cardinality(DOMAIN pool.sock_ctxs) > max_send_sockets
    /\ tun_in >= 2

\* a step that completes the socket selection of send()
SelectionStep == sw_pc = "send" /\ sw_pc' \in {"sock_send", "failed"}

\* a step that completes a lookup by id of receive()
LookupStep == rw_pc = "lookup" /\ (rw_pc' = "sock_recv" \/ panic' = "unwrap on None")

\* a step that completes a removal by id
RemovalStep ==
    \/ sw_pc = "send_remove" /\ sw_pc' = "failed"
    \/ rw_pc = "recv_remove" /\ rw_pc' = "failed"

Phase(p, t, s) ==
    IF s \notin SocksOf(p) THEN 2
    ELSE LET id == CHOOSE i \in DOMAIN p.sock_ctxs : p.sock_ctxs[i].sock = s
         IN  IF p.sock_ctxs[id].created >= t - socket_send_duration THEN 0 ELSE 1

\* C17: a pool entry moves one way through SENDABLE, LINGER, EVICTED: the
\* socket send() selects is send-eligible at that moment, no socket ever goes
\* back to an earlier phase (so one past its send window is not selected
\* again), and a socket that is registered for receiving stays in the pool
\* and registered, under its id, until it leaves the pool.
C17_OneWayPhases ==
    [][/\ (sw_pc = "send" /\ sw_pc' = "sock_send") =>
              /\ sw_sock'.sock_id \in SendEligibleIds(pool', now')
              /\ pool'.sock_ctxs[sw_sock'.sock_id].sock = sw_sock'.sock
       /\ \A s \in 1..Len(socks) : Phase(pool', now', s) >= Phase(pool, now, s)
       /\ \A s \in SocksOf(pool) \cap SocksOf(pool') :
              s \in DOMAIN pool.epoll => (s \in DOMAIN pool'.epoll /\ pool'.epoll[s] = pool.epoll[s])
      ]_vars

\* a send() has selected a new socket while an older one, past its send
\* window, lingers in the pool, registered for receiving
C17_Witness ==
    /\ sw_pc = "sock_send"
    /\ sw_sock.sock = 2
    /\ Phase(pool, now, 1) = 1
    /\ 1 \in DOMAIN pool.epoll

\* C18 as stated: whenever no pool operation is under way, the sockets
\* registered in the readiness poll are the sockets of the pool, each under
\* its pool id as event token.
C18_PollMirrorsPool ==
    /\ DOMAIN pool.epoll = SocksOf(pool)
    /\ \A id \in DOMAIN pool.sock_ctxs : pool.epoll[pool.sock_ctxs[id].sock] = id

\* a step in which receive() returns the error of sock.recv
RecvErrorReturn ==
    /\ rw_pc \in {"sock_recv", "recv_remove"}
    /\ rw_pc' = "failed"
    /\ panic' \in IcmpErrors \cup {"WouldBlock"}

----------------------------------------------------------------------------
\* Claims about the engine of a client

\* C7 as stated: on the client a ConnectionRefused from a UDP send or recv is
\* swallowed: it never reaches the engine worker, whose unwrap() would end
\* the process.
C7_ConnectionRefusedSwallowed == panic # "ConnectionRefused"

C33_IdsNeverReused ==
    [][/\ \A id \in DOMAIN pool'.sock_ctxs :
             pool'.sock_ctxs[id].sock > Len(socks) =>
                /\ \A old \in DOMAIN pool.sock_ctxs : id > old
                /\ id >= Len(socks)
       /\ \A id \in DOMAIN pool.sock_ctxs \cap DOMAIN pool'.sock_ctxs :
             pool'.sock_ctxs[id].sock = pool.sock_ctxs[id].sock]_vars

----------------------------------------------------------------------------
\* Claims about the DNS codec

\* C11 as stated: for every payload of 1..QUERY_MAX_PAYLOAD bytes and every
\* id, encode_to_query followed by decode_from_query succeeds and gives back
\* the payload and the id: the encoder returns a datagram, and once it is
\* decoded the result is Ok((payload, id)).
C11_QueryRoundTrip ==
    d_kind = "query" =>
        /\ d_pc # "panicked"
        /\ d_pc = "decoded" => (d_dec.ok /\ d_dec.payload = d_payload /\ d_dec.id = d_id)

\* C12 as stated: for every payload of 1..QUERY_MAX_PAYLOAD bytes the
\* datagram encode_to_query builds is at most UDP_MTU bytes long, so that the
\* length assertion of the encoder never fails.
C12_QueryFitsUdpMtu ==
    (d_kind = "query" /\ d_pc # "idle") => (Len(d_enc) <= UDP_MTU /\ d_pc # "panicked")

\* the label lengths of the QNAME that starts at offset pos of buf, up to its
\* zero byte, and the offset after that byte
RECURSIVE WireLabels(_, _)
WireLabels(buf, pos) ==
    IF pos >= Len(buf) \/ buf[pos + 1] = 0
    THEN [labels |-> <<>>, pos |-> pos + 1]
    ELSE LET more == WireLabels(buf, pos + 1 + buf[pos + 1])
         IN  [labels |-> <<buf[pos + 1]>> \o more.labels, pos |-> more.pos]

\* the questions of a query datagram from offset pos on, each as the label
\* lengths of its QNAME
RECURSIVE WireQuestions(_, _)
WireQuestions(buf, pos) ==
    IF pos >= Len(buf)
    THEN <<>>
    ELSE LET q == WireLabels(buf, pos)
         IN  <<q.labels>> \o WireQuestions(buf, q.pos + 4)

\* the questions of the datagram are as the claim says for a payload of L bytes
QuestionsWellFormed(buf, L) ==
    LET qs == WireQuestions(buf, 12)
    IN  /\ Len(qs) = (L + QNAME_PAYLOAD - 1) \div QNAME_PAYLOAD
        /\ Len(qs) = get_u16(buf, 4)
        /\ \A i \in DOMAIN qs :
              /\ \A j \in DOMAIN qs[i] : qs[i][j] \in 1..MAX_LABEL
              /\ SumOf(qs[i]) + Len(qs[i]) + 1 <= 255
              /\ i < Len(qs) => SumOf(qs[i]) = QNAME_PAYLOAD
        /\ SumOf([i \in DOMAIN qs |-> SumOf(qs[i])]) = L

\* C32 as stated: for every payload of 0..QUERY_MAX_PAYLOAD bytes
\* encode_to_query returns a datagram with exactly ceil(L/250) questions, the
\* count its header carries; every label is 1..63 bytes long, every QNAME at
\* most 255 bytes with its zero byte, and every question but the last
\* carries exactly 250 bytes of payload.
C32_QuestionsWellFormed ==
    (d_kind = "query" /\ d_pc # "idle") =>
        /\ d_pc # "panicked"
        /\ QuestionsWellFormed(d_enc, Len(d_payload))

\* C13 as stated: for every payload of 1..RESPONSE_MAX_PAYLOAD bytes and
\* every id, encode_to_response followed by decode_from_response succeeds and
\* gives back the payload.
C13_ResponseRoundTrip ==
    d_kind = "response" =>
        /\ d_pc # "panicked"
        /\ d_pc = "decoded" => (d_dec.ok /\ d_dec.payload = d_payload)

\* C14 as stated: for every payload of 1..RESPONSE_MAX_PAYLOAD bytes the
\* datagram encode_to_response builds is at most UDP_MTU bytes long, so that
\* the length assertion of the encoder never fails.
C14_ResponseFitsUdpMtu ==
    (d_kind = "response" /\ d_pc # "idle") => (Len(d_enc) <= UDP_MTU /\ d_pc # "panicked")

\* C28: for every tun packet of 0..VPN_MTU bytes, the empty keepalive
\* included, the encrypted frame is at most TRANSPORT_MTU bytes long, and the
\* DNS query and the DNS response that carry it are at most UDP_MTU bytes
\* long; no assertion of encrypt or of the encoders fails.
C28_FramesFitOneDatagram ==
    /\ c_pc = "encrypted" =>
          /\ ~c_enc.panic
          /\ Len(c_enc.buf) <= TRANSPORT_MTU
    /\ d_pc # "idle" =>
          /\ d_payload = c_enc.buf
          /\ Len(d_enc) <= UDP_MTU
          /\ d_pc = "encoded"

\* the frame of a packet of VPN_MTU bytes, as a query in a build with debug
\* assertions
C28_Witness ==
    /\ Len(c_plain) = VPN_MTU
    /\ Len(d_payload) = TRANSPORT_MTU
    /\ d_kind = "query"
    /\ d_debug
    /\ d_pc = "encoded"

----------------------------------------------------------------------------
\* Claims about cipher.rs

\* the padding bytes of the encrypted frame c_enc.buf: after ciphertext, tag
\* and nonce, before the pad count
InPadding(pos) ==
    /\ pos > Len(c_plain) + TAG_SIZE + NONCE_SIZE
    /\ pos < Len(c_enc.buf)

\* C9: for every plaintext of 0..VPN_MTU bytes and every key, encrypt does not
\* panic and gives a frame of at most TRANSPORT_MTU bytes, and decrypt of
\* that frame under the same key succeeds and leaves exactly the plaintext,
\* whatever nonce and padding bytes were drawn.
C9_RoundTrip ==
    /\ c_pc # "idle" =>
          /\ ~c_enc.panic
          /\ Len(c_enc.buf) <= TRANSPORT_MTU
    /\ (c_pc = "decrypted" /\ c_dkey = c_key /\ c_tamper.kind = "none") =>
          /\ c_dec.ok
          /\ c_dec.buf = c_plain

C9_Witness ==
    /\ c_pc = "decrypted"
    /\ c_dkey = c_key
    /\ c_tamper.kind = "none"
    /\ Len(c_plain) = VPN_MTU
    /\ Len(c_enc.buf) = TRANSPORT_MTU
    /\ c_dec.ok
    /\ c_dec.buf = c_plain

\* C29: for every plaintext of L = 0..VPN_MTU bytes the assertion
\* n_random_bytes >= 0 of encrypt holds, the pad count is between 1 and 255,
\* the last byte of the frame is the pad count, and the frame is exactly
\* min(L + 284, TRANSPORT_MTU) bytes long, whatever the generator draws.
C29_PadCountAndFrameLength ==
    c_pc # "idle" =>
        LET L == Len(c_plain)
            n == c_enc.buf[Len(c_enc.buf)]
        IN  /\ ~c_enc.panic
            /\ n >= 1 /\ n <= 255
            /\ n = n_random_bytes(L + TAG_SIZE + NONCE_SIZE)
            /\ Len(c_enc.buf) = L + TAG_SIZE + NONCE_SIZE + n + 1
            /\ Len(c_enc.buf) = Min(L + 284, TRANSPORT_MTU)

\* the longest packet: one byte of padding
C29_Witness ==
    /\ c_pc = "encrypted"
    /\ Len(c_plain) = VPN_MTU
    /\ c_enc.buf[Len(c_enc.buf)] = 1
    /\ Len(c_enc.buf) = TRANSPORT_MTU

\* C10 as stated: decrypt fails under a different key, and fails after any
\* single bit of a valid frame was inverted, the padding bytes included.
C10_AnyBitFlipFails ==
    (c_pc = "decrypted" /\ (c_dkey # c_key \/ c_tamper.kind = "flip")) => ~c_dec.ok

\* C10 as amended: decrypt fails under a different key, and fails after a
\* single bit of the ciphertext, the tag, the nonce or the trailing pad count
\* was inverted; a bit inverted in the padding bytes goes unnoticed: decrypt
\* succeeds and leaves the original plaintext.
C10_AuthenticatedBitFlipFails ==
    /\ (c_pc = "decrypted" /\ c_dkey # c_key) => ~c_dec.ok
    /\ (c_pc = "decrypted" /\ c_tamper.kind = "flip" /\ ~InPadding(c_tamper.pos)) => ~c_dec.ok
    /\ (c_pc = "decrypted" /\ c_tamper.kind = "flip" /\ InPadding(c_tamper.pos)) =>
          /\ c_dec.ok
          /\ c_dec.buf = c_plain

C10_Witness ==
    /\ c_pc = "decrypted"
    /\ c_tamper.kind = "flip"
    /\ c_tamper.pos = Len(c_enc.buf)
    /\ Len(c_plain) = VPN_MTU
    /\ ~c_dec.ok

\* C31: for every byte string of 0..UDP_MTU bytes handed to it, decrypt,
\* decode_from_query and decode_from_response each return (a result or an
\* error) without a read or a truncate outside the buffer; and when decrypt
\* fails its first or its second length check it returns an error and the
\* buffer is as it was handed in.
C31_DecodersStayInsideBuffer ==
    /\ c_pc # "panicked"
    /\ d_pc # "panicked"
    /\ c_pc = "decrypted" =>
          /\ Len(c_enc.buf) \in 0..UDP_MTU
          /\ AllInBounds(decrypt_accesses(c_enc.buf))
          /\ (\/ Len(c_enc.buf) < 1
              \/ Len(c_enc.buf) < NONCE_SIZE + 1 + c_enc.buf[Len(c_enc.buf)]) =>
                (~c_dec.ok /\ c_dec.buf = c_enc.buf)
    /\ d_pc = "decoded" =>
          /\ Len(d_enc) \in 0..UDP_MTU
          /\ d_kind = "query" => AllInBounds(decode_from_query_accesses(d_enc))
          /\ d_kind = "response" => AllInBounds(decode_from_response_accesses(d_enc))

\* a buffer that holds its pad count but not nonce and padding was refused
\* unchanged
C31_Witness ==
    /\ c_pc = "decrypted"
    /\ Len(c_enc.buf) = NONCE_SIZE + 1
    /\ c_enc.buf[Len(c_enc.buf)] = 1
    /\ ~c_dec.ok
    /\ c_dec.buf = c_enc.buf

====
